---- MODULE Spec2Model ----
(***************************************************************************)
(* SmartDoc AI backend: the text and legal analyzers (app/core), the       *)
(* analysis service (app/services), the request schemas (app/models) and   *)
(* the API routes with optional authentication (app/api, app/core/auth).   *)
(*                                                                         *)
(* Texts are TLA+ strings, read character by character.  Numbers that the  *)
(* code holds as floats rounded to two decimals are held in hundredths,    *)
(* three decimals in thousandths.                                          *)
(***************************************************************************)
EXTENDS Integers, Sequences, FiniteSets, TLC

VARIABLES
    analyzer,   \* the analyzer object under test: its text and its caches
    result,     \* the last operation applied to the analyzer and what it returned
    call,       \* the last call of batch_analyze: its arguments, report and log
    runs,       \* an analysis, its input, and the reports of its runs so far
    comparison, \* the last call of compare_documents: its documents and outcome
    upload,     \* the last call of load_from_bytes: the file, the parsers run, the outcome
    settings,   \* the configuration the application was started with
    exchange,   \* the last request, what handling it did, and the response
    store       \* the analyses saved by the persistence store

coreVars == <<analyzer, result>>

batchVars == <<call>>

reproVars == <<runs, comparison, upload>>

httpVars == <<settings, exchange, store>>

vars == <<analyzer, result, call, runs, comparison, upload, settings, exchange, store>>

(***************************************************************************)
(* Bounds of the model                                                     *)
(***************************************************************************)
\* at most this many fragments are concatenated into one analysed document
MaxFrags == 2

(***************************************************************************)
(* Python values                                                           *)
(***************************************************************************)
\* Optional values: None is the empty tuple, a present value v is <<v>>
None == <<>>

Some(v) == <<v>>

Min(a, b) == IF a < b THEN a ELSE b

Max(a, b) == IF a > b THEN a ELSE b

\* round(num/den, 2) in hundredths, for num >= 0 and den > 0.  The code rounds
\* a float; away from an exact tie (a third decimal 5 followed by nothing) the
\* float and the exact fraction round alike, at an exact tie the float's
\* representation error decides and the model rounds up.
Round2(num, den) ==
    LET whole == num \div den
        q == (100 * (num % den)) \div den
        r == (100 * (num % den)) % den
    IN  100 * whole + (IF 2 * r >= den THEN q + 1 ELSE q)

(***************************************************************************)
(* Characters and strings                                                  *)
(***************************************************************************)
UpperChars == "ABCDEFGHIJKLMNOPQRSTUVWXYZ"

LowerChars == "abcdefghijklmnopqrstuvwxyz"

DigitChars == "0123456789"

CharsOf(s) == {SubSeq(s, i, i) : i \in 1..Len(s)}

UpperSet == CharsOf(UpperChars)

LowerSet == CharsOf(LowerChars)

DigitSet == CharsOf(DigitChars)

\* the regex class \s
IsSpace(c) == c \in {" ", "\t", "\n", "\r"}

\* the regex class \w
IsWordChar(c) == c \in UpperSet \cup LowerSet \cup DigitSet \cup {"_"}

LowerMap ==
    [c \in UpperSet |->
        LET i == CHOOSE k \in 1..Len(UpperChars) : SubSeq(UpperChars, k, k) = c
        IN  SubSeq(LowerChars, i, i)]

LowerChar(c) == IF c \in UpperSet THEN LowerMap[c] ELSE c

Char(s, i) == SubSeq(s, i, i)

\* the concatenation of pieces[lo..hi], by halves
RECURSIVE JoinRange(_, _, _)
JoinRange(pieces, lo, hi) ==
    IF lo > hi THEN ""
    ELSE IF lo = hi THEN pieces[lo]
    ELSE LET mid == (lo + hi) \div 2
         IN  JoinRange(pieces, lo, mid) \o JoinRange(pieces, mid + 1, hi)

Join(pieces) == JoinRange(pieces, 1, Len(pieces))

\* the elements of a finite set of integers in increasing order
SortedSeq(S) ==
    [k \in 1..Cardinality(S) |->
        CHOOSE x \in S : Cardinality({y \in S : y < x}) = k - 1]

\* str.lower()
lower(s) == Join([i \in 1..Len(s) |-> LowerChar(Char(s, i))])

\* str.strip()
strip(s) ==
    LET solid == {i \in 1..Len(s) : ~IsSpace(Char(s, i))}
    IN  IF solid = {} THEN ""
        ELSE SubSeq(s, CHOOSE i \in solid : \A j \in solid : i <= j,
                       CHOOSE i \in solid : \A j \in solid : i >= j)

\* Python's `term in text` for strings
Contains(s, term) ==
    \E i \in 1..(Len(s) - Len(term) + 1) : SubSeq(s, i, i + Len(term) - 1) = term

\* str.endswith
endswith(s, suffix) ==
    Len(s) >= Len(suffix) /\ SubSeq(s, Len(s) - Len(suffix) + 1, Len(s)) = suffix

\* the maximal runs of the characters of s marked in `member`, left to right
Runs(s, member) ==
    LET starts == {i \in 1..Len(s) : member[i] /\ (i = 1 \/ ~member[i - 1])}
        EndOf(i) == CHOOSE j \in i..Len(s) :
                      /\ \A k \in i..j : member[k]
                      /\ (j = Len(s) \/ ~member[j + 1])
        order == SortedSeq(starts)
    IN  [k \in 1..Len(order) |-> SubSeq(s, order[k], EndOf(order[k]))]

\* str.split(): the maximal runs of non-whitespace characters
split(s) == Runs(s, [i \in 1..Len(s) |-> ~IsSpace(Char(s, i))])

(***************************************************************************)
(* TextAnalyzer (app/core/text_analyzer.py)                                *)
(***************************************************************************)
\* re.sub(r'\s+', ' ', text): every run of whitespace becomes one space
CollapseWs(s) ==
    Join([i \in 1..Len(s) |->
            IF ~IsSpace(Char(s, i)) THEN Char(s, i)
            ELSE IF i > 1 /\ IsSpace(Char(s, i - 1)) THEN "" ELSE " "])

_clean_text(text) == strip(CollapseWs(text))

\* re.findall(r'\b\w+\b', cleaned_text.lower()): the maximal runs of word
\* characters
ComputeWords(cleaned_text) ==
    LET s == lower(cleaned_text)
    IN  Runs(s, [i \in 1..Len(s) |-> IsWordChar(Char(s, i))])

IsSentenceEnd(c) == c \in {".", "!", "?"}

\* re.split(r'[.!?]+', s): the pieces between the runs of sentence
\* punctuation; a piece before a leading run or after a trailing run is empty
SplitSentences(s) ==
    LET n == Len(s)
        starts == {1} \cup
                  {i \in 2..(n + 1) :
                      /\ IsSentenceEnd(Char(s, i - 1))
                      /\ (i = n + 1 \/ ~IsSentenceEnd(Char(s, i)))}
        EndOf(i) == CHOOSE j \in (i - 1)..n :
                      /\ \A k \in i..j : ~IsSentenceEnd(Char(s, k))
                      /\ (j = n \/ IsSentenceEnd(Char(s, j + 1)))
        order == SortedSeq(starts)
    IN  [k \in 1..Len(order) |-> SubSeq(s, order[k], EndOf(order[k]))]

\* [s.strip() for s in pieces if s.strip()]
StripNonEmpty(pieces) ==
    LET kept == SortedSeq({i \in 1..Len(pieces) : strip(pieces[i]) # ""})
    IN  [k \in 1..Len(kept) |-> strip(pieces[kept[k]])]

\* a sentence list of the pieces that a '.', '!' or '?' ends: the piece after
\* the last of them is left out
ComputeTerminatedSentences(cleaned_text) ==
    LET pieces == SplitSentences(cleaned_text)
    IN  StripNonEmpty(SubSeq(pieces, 1, Len(pieces) - 1))

\* a sentence list that keeps the empty pieces of the split
ComputeSentencesKeepEmpty(cleaned_text) == SplitSentences(cleaned_text)

ComputeSentences(cleaned_text) == StripNonEmpty(SplitSentences(cleaned_text))

\* TextAnalyzer.__init__: the word and sentence lists are not computed yet
TextAnalyzer(text) ==
    [text |-> text,
     cleaned_text |-> _clean_text(text),
     _word_list |-> None,
     _sentence_list |-> None]

\* the `words` property: computed on first access, then read from the cache
words(a) ==
    IF a._word_list = None THEN ComputeWords(a.cleaned_text) ELSE a._word_list[1]

\* the `sentences` property
sentences(a) ==
    IF a._sentence_list = None THEN ComputeSentences(a.cleaned_text)
    ELSE a._sentence_list[1]

\* an analyzer that does not keep the word list it has computed
WordsNotKept(a) == a

\* the analyzer after its `words` property has been read
AfterWords(a) == [a EXCEPT !._word_list = Some(words(a))]

\* the analyzer after its `sentences` property has been read
AfterSentences(a) == [a EXCEPT !._sentence_list = Some(sentences(a))]

word_count(a) == Len(words(a))

sentence_count(a) == Len(sentences(a))

\* len(text.replace(' ', '').replace('\n', '').replace('\t', ''))
CountNonBlank(s) ==
    Cardinality({i \in 1..Len(s) : Char(s, i) \notin {" ", "\n", "\t"}})

character_count(a, include_spaces) ==
    IF include_spaces THEN Len(a.text) ELSE CountNonBlank(a.text)

RECURSIVE SumLen(_)
SumLen(ws) == IF ws = <<>> THEN 0 ELSE Len(Head(ws)) + SumLen(Tail(ws))

\* hundredths
average_word_length(a) ==
    IF words(a) = <<>> THEN 0 ELSE Round2(SumLen(words(a)), Len(words(a)))

\* hundredths
average_sentence_length(a) ==
    IF sentences(a) = <<>> THEN 0 ELSE Round2(word_count(a), sentence_count(a))

IsVowel(c) == c \in {"a", "e", "i", "o", "u", "y"}

\* the inner loop of _count_syllables: a vowel that does not follow a vowel
\* starts a group
VowelGroups(word) ==
    Cardinality({i \in 1..Len(word) :
                    IsVowel(Char(word, i)) /\ (i = 1 \/ ~IsVowel(Char(word, i - 1)))})

\* _count_syllables without the line `if count == 0: count = 1`
SyllablesOfWordNoFloor(w) ==
    LET word == lower(w)
        groups == VowelGroups(word)
    IN  IF endswith(word, "e") THEN groups - 1 ELSE groups

\* the body of the loop of _count_syllables for one word
SyllablesOfWord(w) ==
    LET word == lower(w)
        groups == VowelGroups(word)
        adjusted == IF endswith(word, "e") THEN groups - 1 ELSE groups
    IN  IF adjusted = 0 THEN 1 ELSE adjusted

RECURSIVE SumSyllables(_)
SumSyllables(ws) ==
    IF ws = <<>> THEN 0 ELSE SyllablesOfWord(Head(ws)) + SumSyllables(Tail(ws))

_count_syllables(a) == SumSyllables(words(a))

\* The Flesch score 206.835 - 1.015*(words/sentences) - 84.6*(syllables/words)
\* as the exact fraction FleschNum / FleschDen
FleschNum(w, s, syl) == 206835 * s * w - 1015 * w * w - 84600 * syl * s

FleschDen(w, s) == 1000 * s * w

\* max(0, min(100, score)), as a numerator over FleschDen
ClampScore(num, den) == Max(0, Min(100 * den, num))

\* the level of a score num/den
ReadabilityLevel(num, den) ==
    IF num >= 90 * den THEN "Very Easy"
    ELSE IF num >= 80 * den THEN "Easy"
    ELSE IF num >= 70 * den THEN "Fairly Easy"
    ELSE IF num >= 60 * den THEN "Standard"
    ELSE IF num >= 50 * den THEN "Fairly Difficult"
    ELSE IF num >= 30 * den THEN "Difficult"
    ELSE "Very Difficult"

\* flesch_reading_ease in hundredths
readability_score(a) ==
    LET w == word_count(a)
        s == sentence_count(a)
    IN  IF s = 0 \/ w = 0
        THEN [flesch_reading_ease |-> 0, readability_level |-> "Unable to calculate"]
        ELSE LET den == FleschDen(w, s)
                 score == ClampScore(FleschNum(w, s, _count_syllables(a)), den)
             IN  [flesch_reading_ease |-> Round2(score, den),
                  readability_level |-> ReadabilityLevel(score, den)]

\* The sentiment capability (TextBlob) answers with a polarity and a
\* subjectivity, in thousandths, or raises
SentimentLabel(polarity) ==
    IF polarity > 300 THEN "Positive"
    ELSE IF polarity < -300 THEN "Negative"
    ELSE "Neutral"

\* blob is the outcome of TextBlob(cleaned_text).sentiment
sentiment_analysis(blob) ==
    IF blob.raised = None
    THEN [polarity |-> blob.polarity,
          subjectivity |-> blob.subjectivity,
          sentiment |-> SentimentLabel(blob.polarity)]
    ELSE [polarity |-> 0,
          subjectivity |-> 0,
          sentiment |-> "Unable to analyze",
          error |-> blob.raised[1]]

stop_words ==
    {"the", "a", "an", "and", "or", "but", "in", "on", "at", "to", "for",
     "of", "with", "by", "from", "as", "is", "was", "are", "were", "been",
     "be", "have", "has", "had", "do", "does", "did", "will", "would",
     "could", "should", "may", "might", "must", "can", "this", "that",
     "these", "those", "i", "you", "he", "she", "it", "we", "they"}

\* word_freq[word] = word_freq.get(word, 0) + 1 on an insertion-ordered dict,
\* held as a sequence of <<word, frequency>>
Bump(freq, word) ==
    IF \E i \in 1..Len(freq) : freq[i][1] = word
    THEN [i \in 1..Len(freq) |->
            IF freq[i][1] = word THEN <<word, freq[i][2] + 1>> ELSE freq[i]]
    ELSE Append(freq, <<word, 1>>)

RECURSIVE CountFrequencies(_, _)
CountFrequencies(ws, freq) ==
    IF ws = <<>> THEN freq
    ELSE CountFrequencies(Tail(ws),
            IF Head(ws) \notin stop_words /\ Len(Head(ws)) > 2
            THEN Bump(freq, Head(ws)) ELSE freq)

\* a sort that puts an item before the earlier items of its own frequency
InsertBeforeTies(sorted, item) ==
    LET k == Cardinality({i \in 1..Len(sorted) : sorted[i][2] > item[2]})
    IN  SubSeq(sorted, 1, k) \o <<item>> \o SubSeq(sorted, k + 1, Len(sorted))

\* sorted(items, key=frequency, reverse=True) is stable: an item goes after
\* every item of a frequency at least its own that came before it
InsertByFrequency(sorted, item) ==
    LET k == Cardinality({i \in 1..Len(sorted) : sorted[i][2] >= item[2]})
    IN  SubSeq(sorted, 1, k) \o <<item>> \o SubSeq(sorted, k + 1, Len(sorted))

RECURSIVE SortByFrequency(_, _)
SortByFrequency(items, sorted) ==
    IF items = <<>> THEN sorted
    ELSE SortByFrequency(Tail(items), InsertByFrequency(sorted, Head(items)))

\* seq[:n]: the first n entries, or all but the last -n when n is negative
SliceTo(seq, n) ==
    IF n >= 0 THEN SubSeq(seq, 1, Min(n, Len(seq)))
    ELSE SubSeq(seq, 1, Max(Len(seq) + n, 0))

\* a ranking returned whole, whatever number was asked for
ExtractAllKeywords(a, top_n) ==
    SortByFrequency(CountFrequencies(words(a), <<>>), <<>>)

extract_keywords(a, top_n) ==
    LET sorted_words == SortByFrequency(CountFrequencies(words(a), <<>>), <<>>)
    IN  SliceTo(sorted_words, top_n)

\* [{"word": word, "frequency": freq} for word, freq in keywords]
KeywordDicts(keywords) ==
    [i \in 1..Len(keywords) |-> [word |-> keywords[i][1], frequency |-> keywords[i][2]]]

get_summary_statistics(a, blob) ==
        [basic_stats |->
            [word_count |-> word_count(a),
             sentence_count |-> sentence_count(a),
             character_count |-> character_count(a, TRUE),
             character_count_no_spaces |-> character_count(a, FALSE),
             average_word_length |-> average_word_length(a),
             average_sentence_length |-> average_sentence_length(a)],
         readability |-> readability_score(a),
         sentiment |-> sentiment_analysis(blob),
         top_keywords |-> KeywordDicts(extract_keywords(a, 5))]

(***************************************************************************)
(* LegalAnalyzer (app/core/legal_analyzer.py)                              *)
(***************************************************************************)
HIGH_RISK_TERMS ==
    <<"penalty", "penalties", "termination", "breach", "default",
      "liability", "damages", "indemnify", "indemnification",
      "waiver", "forfeit", "forfeiture", "non-refundable",
      "irrevocable", "unconditional", "binding", "irreversible">>

MEDIUM_RISK_TERMS ==
    <<"obligation", "obligations", "requirement", "requirements",
      "must", "shall", "mandatory", "compulsory", "necessary",
      "restricted", "prohibition", "prohibited", "forbidden">>

\* a scorer that counts every occurrence of a term instead of its presence
CountOccurrences(terms, text_lower) ==
    Cardinality({p \in (1..Len(terms)) \X (1..Len(text_lower)) :
                    /\ p[2] + Len(terms[p[1]]) - 1 <= Len(text_lower)
                    /\ SubSeq(text_lower, p[2], p[2] + Len(terms[p[1]]) - 1) = terms[p[1]]})

\* sum(1 for term in terms if term in text_lower)
CountPresent(terms, text_lower) ==
    Cardinality({i \in 1..Len(terms) : Contains(text_lower, terms[i])})

\* min(100, (raw_score / 50) * 100), in hundredths
NormalizeRisk(raw_score) == Min(10000, Round2(raw_score * 100, 50))

RiskLevel(risk_score) ==
    IF risk_score >= 7000 THEN [risk_level |-> "High Risk", color |-> "red"]
    ELSE IF risk_score >= 4000 THEN [risk_level |-> "Medium Risk", color |-> "orange"]
    ELSE [risk_level |-> "Low Risk", color |-> "green"]

calculate_risk_score(a) ==
    LET text_lower == lower(a.text)
        high_risk_count == CountPresent(HIGH_RISK_TERMS, text_lower)
        medium_risk_count == CountPresent(MEDIUM_RISK_TERMS, text_lower)
        raw_score == (high_risk_count * 3) + medium_risk_count
        risk_score == NormalizeRisk(raw_score)
    IN  [risk_score |-> risk_score,
         risk_level |-> RiskLevel(risk_score).risk_level,
         color |-> RiskLevel(risk_score).color,
         high_risk_terms_found |-> high_risk_count,
         medium_risk_terms_found |-> medium_risk_count,
         total_risk_terms |-> high_risk_count + medium_risk_count]

(***************************************************************************)
(* Regular-expression matching (re.finditer) for the legal extractors.     *)
(* Positions are 1-based; a match is [start, end, groups] with `end` the   *)
(* position after its last character.                                      *)
(***************************************************************************)
WsSet == {" ", "\t", "\n", "\r"}

LetterSet == UpperSet \cup LowerSet

\* s[lo..hi] lies within s and every character of it is in the class
AllIn(s, lo, hi, class) ==
    \A j \in lo..hi : j >= 1 /\ j <= Len(s) /\ Char(s, j) \in class

\* the literal lit stands at position p of s
LitAt(s, p, lit) ==
    p >= 1 /\ p + Len(lit) - 1 <= Len(s) /\ SubSeq(s, p, p + Len(lit) - 1) = lit

\* the same under re.IGNORECASE
LitAtI(s, p, lit) ==
    p >= 1 /\ p + Len(lit) - 1 <= Len(s)
    /\ lower(SubSeq(s, p, p + Len(lit) - 1)) = lower(lit)

\* the length of the longest run of characters of the class that starts at p
RunLen(s, p, class) ==
    LET stops == {j \in p..Len(s) : Char(s, j) \notin class}
    IN  IF p > Len(s) THEN 0
        ELSE IF stops = {} THEN Len(s) - p + 1
        ELSE (CHOOSE j \in stops : \A k \in stops : j <= k) - p

\* \b at position p: exactly one of the characters before and at p is a word
\* character
WordBoundary(s, p) ==
    LET before == p > 1 /\ IsWordChar(Char(s, p - 1))
        at == p <= Len(s) /\ IsWordChar(Char(s, p))
    IN  before # at

\* re.finditer: the leftmost match at or after `from`, then the search goes on
\* after it; at[p] is the match the pattern has at position p, or None
RECURSIVE Finditer(_, _)
Finditer(at, from) ==
    LET found == {p \in from..Len(at) : at[p] # None}
    IN  IF found = {} THEN <<>>
        ELSE LET p == CHOOSE q \in found : \A r \in found : q <= r
             IN  <<at[p][1]>> \o Finditer(at, Max(at[p][1].end, p + 1))

\* `items if items else [sentinel]`
OrSentinel(items, sentinel) == IF items # <<>> THEN items ELSE <<sentinel>>

\* the first pattern of an ordered alternation of literals that stands at p
FirstLitAt(s, p, lits) ==
    LET hits == {i \in 1..Len(lits) : LitAt(s, p, lits[i])}
    IN  IF hits = {} THEN None
        ELSE LET i == CHOOSE h \in hits : \A g \in hits : h <= g
             IN  Some([start |-> p, end |-> p + Len(lits[i])])

\* a context that marks a cut as soon as the window reaches the first character
GetContextInclusive(text, start, end, chars) ==
    LET context_start == Max(0, start - chars)
        context_end == Min(Len(text), end + chars)
        context == strip(SubSeq(text, context_start + 1, context_end))
    IN  (IF start >= chars THEN "..." ELSE "") \o context
        \o (IF context_end < Len(text) THEN "..." ELSE "")

\* _get_context with Python's 0-based start and end
_get_context(text, start, end, chars) ==
    LET context_start == Max(0, start - chars)
        context_end == Min(Len(text), end + chars)
        context == strip(SubSeq(text, context_start + 1, context_end))
    IN  (IF context_start > 0 THEN "..." ELSE "") \o context
        \o (IF context_end < Len(text) THEN "..." ELSE "")

\* the context of a match m of the model (1-based, end exclusive)
ContextOf(text, m, chars) == _get_context(text, m.start - 1, m.end - 1, chars)

(***************************************************************************)
(* extract_dates                                                           *)
(***************************************************************************)
MONTHS ==
    <<"January", "February", "March", "April", "May", "June", "July",
      "August", "September", "October", "November", "December">>

DateSepSet == {"/", "-"}

\* \d{1,2} followed by a character of `next`: two digits when that fits, else one
DigitsThen(s, p, next) ==
    IF AllIn(s, p, p + 1, DigitSet) /\ p + 2 <= Len(s) /\ Char(s, p + 2) \in next THEN 2
    ELSE IF AllIn(s, p, p, DigitSet) /\ p + 1 <= Len(s) /\ Char(s, p + 1) \in next THEN 1
    ELSE 0

\* \b(\d{1,2})\s+(January|...|December)\s+(\d{4})\b with re.IGNORECASE
DayMonthYearAt(s, p) ==
    LET d == DigitsThen(s, p, WsSet)
        w1 == RunLen(s, p + d, WsSet)
        mp == p + d + w1
        months == {i \in 1..Len(MONTHS) : LitAtI(s, mp, MONTHS[i])}
        mlen == Len(MONTHS[CHOOSE i \in months : \A j \in months : i <= j])
        w2 == RunLen(s, mp + mlen, WsSet)
        yp == mp + mlen + w2
    IN  IF /\ p <= Len(s) /\ WordBoundary(s, p)
           /\ d > 0 /\ months # {} /\ w2 > 0
           /\ yp + 3 <= Len(s) /\ AllIn(s, yp, yp + 3, DigitSet)
           /\ WordBoundary(s, yp + 4)
        THEN Some([start |-> p, end |-> yp + 4])
        ELSE None

\* \b(\d{4})[/-](\d{1,2})[/-](\d{1,2})\b
YearMonthDayAt(s, p) ==
    LET d2 == DigitsThen(s, p + 5, DateSepSet)
        dp == p + 5 + d2 + 1
        d3 == IF AllIn(s, dp, dp + 1, DigitSet) /\ dp + 1 <= Len(s)
                 /\ WordBoundary(s, dp + 2) THEN 2
              ELSE IF dp <= Len(s) /\ AllIn(s, dp, dp, DigitSet)
                 /\ WordBoundary(s, dp + 1) THEN 1
              ELSE 0
    IN  IF /\ p + 4 <= Len(s) /\ WordBoundary(s, p)
           /\ AllIn(s, p, p + 3, DigitSet)
           /\ Char(s, p + 4) \in DateSepSet
           /\ d2 > 0 /\ d3 > 0
        THEN Some([start |-> p, end |-> dp + d3])
        ELSE None

\* \b(\d{1,2})[/-](\d{1,2})[/-](\d{4})\b
DayMonthYearNumericAt(s, p) ==
    LET d1 == DigitsThen(s, p, DateSepSet)
        d2 == DigitsThen(s, p + d1 + 1, DateSepSet)
        yp == p + d1 + 1 + d2 + 1
    IN  IF /\ p <= Len(s) /\ WordBoundary(s, p)
           /\ d1 > 0 /\ d2 > 0
           /\ yp + 3 <= Len(s) /\ AllIn(s, yp, yp + 3, DigitSet)
           /\ WordBoundary(s, yp + 4)
        THEN Some([start |-> p, end |-> yp + 4])
        ELSE None

\* the entries one date pattern adds to `dates`
DateEntries(text, matches, format) ==
    [i \in 1..Len(matches) |->
        [date |-> SubSeq(text, matches[i].start, matches[i].end - 1),
         format |-> format,
         context |-> ContextOf(text, matches[i], 100)]]

\* the entries of the three date patterns, in the order they are appended
DateMatches(text) ==
            DateEntries(text,
                Finditer([p \in 1..Len(text) |-> DayMonthYearAt(text, p)], 1),
                "DD Month YYYY")
            \o DateEntries(text,
                Finditer([p \in 1..Len(text) |-> YearMonthDayAt(text, p)], 1),
                "YYYY-MM-DD")
            \o DateEntries(text,
                Finditer([p \in 1..Len(text) |-> DayMonthYearNumericAt(text, p)], 1),
                "DD/MM/YYYY")

ComputeDates(text) ==
    OrSentinel(DateMatches(text),
        [date |-> "No dates found", format |-> "N/A", context |-> ""])

\* extract_dates: the first result is kept in _dates
extract_dates(a) == IF a._dates # None THEN a._dates[1] ELSE ComputeDates(a.text)

(***************************************************************************)
(* extract_monetary_amounts                                                *)
(***************************************************************************)
\* (?:[,\s]\d{3})* from position p: the position after the last group
RECURSIVE ThousandsEnd(_, _)
ThousandsEnd(s, p) ==
    IF /\ p + 3 <= Len(s)
       /\ Char(s, p) \in WsSet \cup {","}
       /\ AllIn(s, p + 1, p + 3, DigitSet)
    THEN ThousandsEnd(s, p + 4)
    ELSE p

\* \d+(?:[,\s]\d{3})*(?:\.\d{2})? at position p: the position after the
\* number, or p when no digit stands at p
NumberEnd(s, p) ==
    LET digits == RunLen(s, p, DigitSet)
        q == ThousandsEnd(s, p + digits)
    IN  IF digits = 0 THEN p
        ELSE IF q + 2 <= Len(s) /\ Char(s, q) = "." /\ AllIn(s, q + 1, q + 2, DigitSet)
             THEN q + 3
             ELSE q

\* R\s*(number) and ZAR\s*(number)
PrefixedAmountAt(s, p, prefix) ==
    LET np == p + Len(prefix) + RunLen(s, p + Len(prefix), WsSet)
    IN  IF LitAt(s, p, prefix) /\ NumberEnd(s, np) > np
        THEN Some([start |-> p, end |-> NumberEnd(s, np)])
        ELSE None

\* (number)\s*Rands? with re.IGNORECASE
RandAmountAt(s, p) ==
    LET q == NumberEnd(s, p)
        rp == q + RunLen(s, q, WsSet)
    IN  IF p <= Len(s) /\ q > p /\ LitAtI(s, rp, "Rand")
        THEN Some([start |-> p,
                   end |-> IF LitAtI(s, rp + 4, "s") THEN rp + 5 ELSE rp + 4])
        ELSE None

AmountEntries(text, matches) ==
    [i \in 1..Len(matches) |->
        [amount |-> SubSeq(text, matches[i].start, matches[i].end - 1),
         currency |-> "ZAR (Rands)",
         context |-> ContextOf(text, matches[i], 100)]]

\* the entries of the three amount patterns, in the order they are appended
AmountMatches(text) ==
            AmountEntries(text,
                Finditer([p \in 1..Len(text) |-> PrefixedAmountAt(text, p, "R")], 1))
            \o AmountEntries(text,
                Finditer([p \in 1..Len(text) |-> RandAmountAt(text, p)], 1))
            \o AmountEntries(text,
                Finditer([p \in 1..Len(text) |-> PrefixedAmountAt(text, p, "ZAR")], 1))

ComputeAmounts(text) ==
    OrSentinel(AmountMatches(text),
        [amount |-> "No amounts found", currency |-> "N/A", context |-> ""])

extract_monetary_amounts(a) ==
    IF a._amounts # None THEN a._amounts[1] ELSE ComputeAmounts(a.text)

(***************************************************************************)
(* extract_parties                                                         *)
(***************************************************************************)
SA_COMPANY_SUFFIXES ==
    <<"Pty Ltd", "PTY LTD", "(Pty) Ltd", "(PTY) LTD", "CC", "Close Corporation",
      "NPC", "Non-Profit Company", "SOC Ltd", "State Owned Company",
      "Inc", "Incorporated">>

\* [A-Za-z0-9\s&]
CompanyNameSet == LetterSet \cup DigitSet \cup WsSet \cup {"&"}

\* [A-Za-z\s&\.]
EntityNameSet == LetterSet \cup WsSet \cup {"&", "."}

\* the position after the white space that starts at p
SkipWs(s, p) == p + RunLen(s, p, WsSet)

SetMax(S) == CHOOSE x \in S : \A y \in S : x >= y

\* the white space after the name s[p..p+k] ends where an occurrence of the
\* suffix begins
SuffixAfter(s, p, k, at) ==
    {q \in at : q >= p + k + 2 /\ AllIn(s, p + k + 1, q - 1, WsSet)}

CompanyMatch(s, p, suffix, k, qs) ==
    Some([start |-> p,
          end |-> (CHOOSE q \in qs : TRUE) + Len(suffix),
          group1 |-> SubSeq(s, p, p + k)])

\* the repetition {2,50} is greedy: the longest name that still leaves white
\* space and the suffix behind it is the one matched; ks are the lengths that do
CompanyLongest(s, p, suffix, at, ks) ==
    IF Char(s, p) \in UpperSet /\ ks # {}
    THEN CompanyMatch(s, p, suffix, SetMax(ks), SuffixAfter(s, p, SetMax(ks), at))
    ELSE None

CompanyFrom(s, p, suffix, at) ==
    CompanyLongest(s, p, suffix, at,
        {k \in 2..Min(50, RunLen(s, p + 1, CompanyNameSet)) :
            SuffixAfter(s, p, k, at) # {}})

\* ([A-Z][A-Za-z0-9\s&]{2,50})\s+<suffix> at position p; `at` in CompanyFrom
\* is where the suffix occurs
CompanyAt(s, p, suffix) ==
    CompanyFrom(s, p, suffix, {q \in (p + 4)..Len(s) : LitAt(s, q, suffix)})

\* the length of (?:and|&) at position p, 0 when neither stands there
ConjunctionLen(s, p) ==
    IF LitAtI(s, p, "and") THEN 3 ELSE IF LitAt(s, p, "&") THEN 1 ELSE 0

\* \s+([A-Z][A-Za-z\s&\.]{2,100}) from position e, the name beginning at b
SecondFrom(s, e, b) ==
    IF /\ b > e /\ b <= Len(s) /\ Char(s, b) \in LetterSet
       /\ RunLen(s, b + 1, EntityNameSet) >= 2
    THEN Some([start |-> b, len |-> Min(100, RunLen(s, b + 1, EntityNameSet))])
    ELSE None

\* (?:and|&)\s+([A-Z][A-Za-z\s&\.]{2,100}) at position c, the conjunction cl long
SecondAfter(s, c, cl) ==
    IF cl > 0 THEN SecondFrom(s, c + cl, SkipWs(s, c + cl)) ELSE None

\* \s+(?:and|&)\s+(...) from position e, the conjunction at c
BetweenTail(s, e, c) ==
    IF c > e THEN SecondAfter(s, c, ConjunctionLen(s, c)) ELSE None

BetweenMatch(s, p, a, k, second) ==
    Some([start |-> p,
          end |-> second.start + second.len + 1,
          group1 |-> SubSeq(s, a, a + k),
          group2 |-> SubSeq(s, second.start, second.start + second.len)])

\* the first repetition {2,100} is greedy and gives back until the rest
\* matches; ks are the lengths after which the rest matches
BetweenLongest(s, p, a, ks) ==
    IF ks # {}
    THEN BetweenMatch(s, p, a, SetMax(ks),
            BetweenTail(s, a + SetMax(ks) + 1, SkipWs(s, a + SetMax(ks) + 1))[1])
    ELSE None

BetweenFrom(s, p, a) ==
    IF a > p + 7 /\ a <= Len(s) /\ Char(s, a) \in LetterSet
    THEN BetweenLongest(s, p, a,
            {k \in 2..Min(100, RunLen(s, a + 1, EntityNameSet)) :
                BetweenTail(s, a + k + 1, SkipWs(s, a + k + 1)) # None})
    ELSE None

\* between\s+([A-Z][A-Za-z\s&\.]{2,100})\s+(?:and|&)\s+([A-Z][A-Za-z\s&\.]{2,100})
\* with re.IGNORECASE, where [A-Z] is any letter
BetweenAt(s, p) ==
    IF LitAtI(s, p, "between") THEN BetweenFrom(s, p, SkipWs(s, p + 7)) ELSE None

\* (?:word\s+)? at position p: the position after it when it stands there
OptionalWord(s, p, word) ==
    IF LitAtI(s, p, word) /\ RunLen(s, p + Len(word), WsSet) > 0
    THEN SkipWs(s, p + Len(word))
    ELSE p

\* ([A-Z][A-Za-z\s&\.]{2,50}) beginning at a, for the match that starts at p
RoleName(s, p, a, k) ==
    IF a <= Len(s) /\ Char(s, a) \in LetterSet /\ k >= 2
    THEN Some([start |-> p, end |-> a + k + 1, group1 |-> SubSeq(s, a, a + k)])
    ELSE None

\* [:\s]+(...) from position e, the name beginning at a
RoleTail(s, p, e, a) ==
    IF a > e THEN RoleName(s, p, a, Min(50, RunLen(s, a + 1, EntityNameSet))) ELSE None

\* <role>[:\s]+(...) at position q
RoleFrom(s, p, q, role) ==
    IF LitAtI(s, q, role)
    THEN RoleTail(s, p, q + Len(role),
                  q + Len(role) + RunLen(s, q + Len(role), WsSet \cup {":"}))
    ELSE None

\* <optional words><role>[:\s]+([A-Z][A-Za-z\s&\.]{2,50}) with re.IGNORECASE
RoleAt(s, p, optional, role) ==
    RoleFrom(s, p,
             IF Len(optional) = 2
             THEN OptionalWord(s, OptionalWord(s, p, optional[1]), optional[2])
             ELSE OptionalWord(s, p, optional[1]),
             role)

role_patterns ==
    <<[role |-> "Employer", optional |-> <<"the">>, word |-> "Employer"],
      [role |-> "Employee", optional |-> <<"the">>, word |-> "Employee"],
      [role |-> "Landlord", optional |-> <<"the">>, word |-> "Landlord"],
      [role |-> "Tenant", optional |-> <<"the">>, word |-> "Tenant"],
      [role |-> "Client", optional |-> <<"the">>, word |-> "Client"],
      [role |-> "Service Provider", optional |-> <<"the", "Service">>,
       word |-> "Provider"]>>

\* every candidate appended, listed or not
AppendEvery(parties, candidates) == parties \o candidates

\* parties.append for every candidate whose name is not yet listed
RECURSIVE AppendNew(_, _)
AppendNew(parties, candidates) ==
    IF candidates = <<>> THEN parties
    ELSE AppendNew(
            IF \E i \in 1..Len(parties) : parties[i].name = Head(candidates).name
            THEN parties
            ELSE Append(parties, Head(candidates)),
            Tail(candidates))

\* the parties the matches of one suffix name
CompanyParties(matches, suffix) ==
    [j \in 1..Len(matches) |->
        [name |-> strip(matches[j].group1) \o " " \o suffix,
         type |-> "Company", role |-> "Party"]]

\* the candidates of the suffixes from the i-th on, in the order of the loops
RECURSIVE CompanyCandidates(_, _)
CompanyCandidates(text, i) ==
    IF i > Len(SA_COMPANY_SUFFIXES) THEN <<>>
    ELSE CompanyParties(
            Finditer([p \in 1..Len(text) |-> CompanyAt(text, p, SA_COMPANY_SUFFIXES[i])], 1),
            SA_COMPANY_SUFFIXES[i])
         \o CompanyCandidates(text, i + 1)

\* a name of at most `most` words is a candidate
NameCandidate(name, most, role) ==
    IF Len(split(name)) <= most
    THEN <<[name |-> name, type |-> "Entity", role |-> role]>>
    ELSE <<>>

RECURSIVE BetweenCandidates(_)
BetweenCandidates(matches) ==
    IF matches = <<>> THEN <<>>
    ELSE NameCandidate(strip(Head(matches).group1), 10, "First Party")
         \o NameCandidate(strip(Head(matches).group2), 10, "Second Party")
         \o BetweenCandidates(Tail(matches))

RECURSIVE RoleParties(_, _)
RoleParties(matches, role) ==
    IF matches = <<>> THEN <<>>
    ELSE NameCandidate(strip(Head(matches).group1), 8, role)
         \o RoleParties(Tail(matches), role)

RECURSIVE RoleCandidates(_, _)
RoleCandidates(text, i) ==
    IF i > Len(role_patterns) THEN <<>>
    ELSE RoleParties(
            Finditer([p \in 1..Len(text) |->
                        RoleAt(text, p, role_patterns[i].optional, role_patterns[i].word)], 1),
            role_patterns[i].role)
         \o RoleCandidates(text, i + 1)

\* the candidates of the three passes, in the order the passes meet them
PartyCandidates(text) ==
    CompanyCandidates(text, 1)
    \o BetweenCandidates(Finditer([p \in 1..Len(text) |-> BetweenAt(text, p)], 1))
    \o RoleCandidates(text, 1)

ComputeParties(text) ==
    OrSentinel(
        AppendNew(<<>>, PartyCandidates(text)),
        [name |-> "Not identified", type |-> "Unknown", role |-> "Unknown"])


extract_parties(a) == IF a._parties # None THEN a._parties[1] ELSE ComputeParties(a.text)

\* the analyzer after an extraction has kept its result
AfterParties(a) == [a EXCEPT !._parties = Some(extract_parties(a))]

AfterDates(a) == [a EXCEPT !._dates = Some(extract_dates(a))]

AfterAmounts(a) == [a EXCEPT !._amounts = Some(extract_monetary_amounts(a))]

(***************************************************************************)
(* identify_clauses and identify_document_type                             *)
(***************************************************************************)
\* every pattern is an alternation of literals; an optional part is tried
\* with the part first, so the longer literal comes first
CLAUSE_PATTERNS ==
    <<[clause_type |-> "confidentiality",
       literals |-> <<"confidentiality", "confidential", "non-disclosure",
                      "proprietary information">>],
      [clause_type |-> "termination",
       literals |-> <<"termination", "cancellation",
                      "ending of this agreement", "ending of agreement",
                      "ending this agreement", "ending agreement",
                      "end of this agreement", "end of agreement",
                      "end this agreement", "end agreement">>],
      [clause_type |-> "payment",
       literals |-> <<"payment", "compensation", "remuneration", "salary",
                      "fee", "amount">>],
      [clause_type |-> "liability",
       literals |-> <<"liability", "responsible", "accountable", "liable">>],
      [clause_type |-> "indemnity",
       literals |-> <<"indemnify", "indemnification", "hold harmless">>],
      [clause_type |-> "dispute_resolution",
       literals |-> <<"dispute resolution", "arbitration", "mediation",
                      "jurisdiction">>],
      [clause_type |-> "force_majeure",
       literals |-> <<"force majeure", "act of god", "unforeseen circumstances">>],
      [clause_type |-> "amendment",
       literals |-> <<"amendment", "modification", "change", "alteration">>],
      [clause_type |-> "notice",
       literals |-> <<"notice", "notification", "inform", "advise in writing">>],
      [clause_type |-> "governing_law",
       literals |-> <<"governing law", "applicable law", "south african law">>]>>

\* the contexts of the matches, chars characters to each side
Contexts(text, matches, chars) ==
    [i \in 1..Len(matches) |-> ContextOf(text, matches[i], chars)]

\* the contexts of the occurrences of one clause pattern in the lowered text
ClauseOccurrences(text, text_lower, literals) ==
    Contexts(text,
             Finditer([p \in 1..Len(text) |-> FirstLitAt(text_lower, p, literals)], 1),
             150)

\* the dictionary of the clause types that occur, in the order of the table
ClauseDict(occurrences) ==
    [t \in {CLAUSE_PATTERNS[i].clause_type :
                i \in {j \in 1..Len(CLAUSE_PATTERNS) : occurrences[j] # <<>>}} |->
        occurrences[CHOOSE i \in 1..Len(CLAUSE_PATTERNS) : CLAUSE_PATTERNS[i].clause_type = t]]

ComputeClauses(text) ==
    ClauseDict([i \in 1..Len(CLAUSE_PATTERNS) |->
                  ClauseOccurrences(text, lower(text), CLAUSE_PATTERNS[i].literals)])

identify_clauses(a) == IF a._clauses # None THEN a._clauses[1] ELSE ComputeClauses(a.text)

AfterClauses(a) == [a EXCEPT !._clauses = Some(identify_clauses(a))]

type_keywords ==
    <<[doc_type |-> "Employment Contract",
       keywords |-> <<"employment", "employee", "employer", "position", "duties">>],
      [doc_type |-> "Lease Agreement",
       keywords |-> <<"lease", "tenant", "landlord", "premises", "rent", "rental">>],
      [doc_type |-> "NDA",
       keywords |-> <<"non-disclosure", "confidential", "confidentiality agreement", "nda">>],
      [doc_type |-> "Service Agreement",
       keywords |-> <<"service", "services", "provider", "client", "deliverables">>],
      [doc_type |-> "Sales Agreement",
       keywords |-> <<"sale", "purchase", "buyer", "seller", "goods">>],
      [doc_type |-> "Partnership Agreement",
       keywords |-> <<"partner", "partnership", "joint venture">>],
      [doc_type |-> "Loan Agreement",
       keywords |-> <<"loan", "lender", "borrower", "principal", "interest">>]>>

\* a classifier that gives a tie to the type declared last
IdentifyLastBest(a) ==
    LET text_lower == lower(a.text)
        scores == [i \in 1..Len(type_keywords) |->
                      CountPresent(type_keywords[i].keywords, text_lower)]
        best == CHOOSE i \in 1..Len(scores) :
                    /\ \A j \in 1..Len(scores) : scores[j] <= scores[i]
                    /\ \A j \in (i + 1)..Len(scores) : scores[j] < scores[i]
    IN  IF scores[best] > 0 THEN type_keywords[best].doc_type
        ELSE "Unknown Document Type"

\* the first type, in the order of the table, with the highest score
identify_document_type(a) ==
    LET text_lower == lower(a.text)
        scores == [i \in 1..Len(type_keywords) |->
                      CountPresent(type_keywords[i].keywords, text_lower)]
        best == CHOOSE i \in 1..Len(scores) :
                    /\ \A j \in 1..Len(scores) : scores[j] <= scores[i]
                    /\ \A j \in 1..(i - 1) : scores[j] < scores[i]
    IN  IF scores[best] > 0 THEN type_keywords[best].doc_type
        ELSE "Unknown Document Type"

\* LegalAnalyzer.__init__ on top of TextAnalyzer.__init__
LegalAnalyzer(text, document_type) ==
    TextAnalyzer(text) @@
    [document_type |-> document_type,
     _parties |-> None,
     _dates |-> None,
     _amounts |-> None,
     _clauses |-> None]

\* a list that is not cut
KeepAll(items) == items

\* get_legal_summary; now is what datetime.now().isoformat() reads
\* `items[:5] if len(items) > 5 else items`
Top5(items) == IF Len(items) > 5 THEN SubSeq(items, 1, 5) ELSE items

\* {clause_type: len(occurrences) for clause_type, occurrences in clauses.items()}
ClauseCounts(clauses) == [t \in DOMAIN clauses |-> Len(clauses[t])]

\* a summary that reports the caller's hint as the document type when there
\* is one
LegalSummaryWithHint(a, blob, now) ==
        [document_info |->
            [document_type |-> IF a.document_type # None THEN a.document_type[1]
                               ELSE identify_document_type(a),
             analysis_date |-> now],
         parties |-> extract_parties(a),
         key_dates |-> Top5(extract_dates(a)),
         monetary_amounts |-> Top5(extract_monetary_amounts(a)),
         identified_clauses |-> ClauseCounts(identify_clauses(a)),
         risk_assessment |-> calculate_risk_score(a),
         text_statistics |-> get_summary_statistics(a, blob)]

get_legal_summary(a, blob, now) ==
        [document_info |->
            [document_type |-> identify_document_type(a),
             analysis_date |-> now],
         parties |-> extract_parties(a),
         key_dates |-> Top5(extract_dates(a)),
         monetary_amounts |-> Top5(extract_monetary_amounts(a)),
         identified_clauses |-> ClauseCounts(identify_clauses(a)),
         risk_assessment |-> calculate_risk_score(a),
         text_statistics |-> get_summary_statistics(a, blob)]

(***************************************************************************)
(* Python values and call outcomes                                         *)
(***************************************************************************)
\* a value handed over as a text: a str, or None
Str(s) == [pytype |-> "str", s |-> s]

PyNone == [pytype |-> "NoneType", s |-> ""]

\* a call returns a value or raises an exception
Return(v) == [ok |-> TRUE, value |-> v]

Raise(exc, msg) == [ok |-> FALSE, exc |-> exc, msg |-> msg, log |-> <<>>]

\* what the except clause of a service function does with the exception it
\* caught: logger.error, then raise ValueError
ServiceFailure(what, msg) ==
    [ok |-> FALSE, exc |-> "ValueError", msg |-> what \o " failed: " \o msg,
     log |-> <<"Error in " \o lower(what) \o ": " \o msg>>]

\* re.sub on a value that is not a str raises TypeError with this message
NotAStringMsg == "expected string or bytes-like object"

(***************************************************************************)
(* The response models (app/models/schemas.py): a model keeps its declared *)
(* fields, drops every other key and checks the bounds of its fields       *)
(***************************************************************************)
BasicStats(d) ==
    [word_count |-> d.word_count,
     sentence_count |-> d.sentence_count,
     character_count |-> d.character_count,
     character_count_no_spaces |-> d.character_count_no_spaces,
     average_word_length |-> d.average_word_length,
     average_sentence_length |-> d.average_sentence_length]

\* flesch_reading_ease, in hundredths, has ge=0 and le=100
ReadabilityScoreValid(d) == d.flesch_reading_ease >= 0 /\ d.flesch_reading_ease <= 10000

ReadabilityScore(d) ==
    [flesch_reading_ease |-> d.flesch_reading_ease,
     readability_level |-> d.readability_level]

\* polarity and subjectivity, in thousandths, have ge=-1, le=1 and ge=0, le=1
SentimentAnalysisValid(d) ==
    /\ d.polarity >= -1000 /\ d.polarity <= 1000
    /\ d.subjectivity >= 0 /\ d.subjectivity <= 1000

SentimentAnalysis(d) ==
    [polarity |-> d.polarity, subjectivity |-> d.subjectivity, sentiment |-> d.sentiment]

Keyword(word, frequency) == [word |-> word, frequency |-> frequency]

Party(d) == [name |-> d.name, type |-> d.type, role |-> d.role]

DateInfo(d) == [date |-> d.date, format |-> d.format, context |-> d.context]

MonetaryAmount(d) == [amount |-> d.amount, currency |-> d.currency, context |-> d.context]

RiskLevelValues == {"Low Risk", "Medium Risk", "High Risk"}

\* risk_score, in hundredths, has ge=0 and le=100; risk_level is a RiskLevel
RiskAssessmentValid(d) ==
    d.risk_score >= 0 /\ d.risk_score <= 10000 /\ d.risk_level \in RiskLevelValues

RiskAssessment(d) ==
    [risk_score |-> d.risk_score,
     risk_level |-> d.risk_level,
     color |-> d.color,
     high_risk_terms_found |-> d.high_risk_terms_found,
     medium_risk_terms_found |-> d.medium_risk_terms_found,
     total_risk_terms |-> d.total_risk_terms]

DocumentInfo(d) == [document_type |-> d.document_type, analysis_date |-> d.analysis_date]

\* str(e) of the ValidationError a model raises on a field out of its bounds
ValidationErrorMsg == "validation error"

(***************************************************************************)
(* AnalysisService (app/services/analysis_service.py)                      *)
(***************************************************************************)
\* the return statement of analyze_text: the models are built from the
\* statistics, and a model that rejects its fields raises
TextReport(stats) ==
    IF ReadabilityScoreValid(stats.readability) /\ SentimentAnalysisValid(stats.sentiment)
    THEN Return(
           [basic_stats |-> BasicStats(stats.basic_stats),
            readability |-> ReadabilityScore(stats.readability),
            sentiment |-> SentimentAnalysis(stats.sentiment),
            top_keywords |->
               [i \in 1..Len(stats.top_keywords) |->
                   Keyword(stats.top_keywords[i].word, stats.top_keywords[i].frequency)]])
    ELSE ServiceFailure("Text analysis", ValidationErrorMsg)

\* analyze_text: every exception becomes a ValueError
analyze_text(text, blob) ==
    IF text.pytype # "str"
    THEN ServiceFailure("Text analysis", NotAStringMsg)
    ELSE TextReport(get_summary_statistics(TextAnalyzer(text.s), blob))

\* the return statement of analyze_legal_document; text_statistics is handed
\* on as the analyzer made it
LegalReport(legal_summary) ==
    IF RiskAssessmentValid(legal_summary.risk_assessment)
    THEN Return(
           [document_info |-> DocumentInfo(legal_summary.document_info),
            parties |->
               [i \in 1..Len(legal_summary.parties) |-> Party(legal_summary.parties[i])],
            key_dates |->
               [i \in 1..Len(legal_summary.key_dates) |->
                   DateInfo(legal_summary.key_dates[i])],
            monetary_amounts |->
               [i \in 1..Len(legal_summary.monetary_amounts) |->
                   MonetaryAmount(legal_summary.monetary_amounts[i])],
            identified_clauses |-> legal_summary.identified_clauses,
            risk_assessment |-> RiskAssessment(legal_summary.risk_assessment),
            text_statistics |-> legal_summary.text_statistics])
    ELSE ServiceFailure("Legal analysis", ValidationErrorMsg)

analyze_legal_document(text, document_type, blob, now) ==
    IF text.pytype # "str"
    THEN ServiceFailure("Legal analysis", NotAStringMsg)
    ELSE LegalReport(get_legal_summary(LegalAnalyzer(text.s, document_type), blob, now))

\* the sentences, of the first five, that have more than three words
KeyPoints(sentence_list) ==
    SelectSeq(SubSeq(sentence_list, 1, Min(5, Len(sentence_list))),
              LAMBDA sentence : Len(split(sentence)) > 3)

\* the return statement of analyze_feedback
FeedbackReport(sentiment, readability, key_points, words_counted) ==
    IF SentimentAnalysisValid(sentiment) /\ ReadabilityScoreValid(readability)
    THEN Return(
           [sentiment |-> SentimentAnalysis(sentiment),
            key_points |-> key_points,
            word_count |-> words_counted,
            readability |-> ReadabilityScore(readability)])
    ELSE ServiceFailure("Feedback analysis", ValidationErrorMsg)

\* the body of analyze_feedback on its analyzer
FeedbackOf(a, blob) ==
    FeedbackReport(sentiment_analysis(blob), readability_score(a),
                   KeyPoints(sentences(a)), word_count(a))

analyze_feedback(text, blob) ==
    IF text.pytype # "str"
    THEN ServiceFailure("Feedback analysis", NotAStringMsg)
    ELSE FeedbackOf(TextAnalyzer(text.s), blob)

\* the words of extract_keywords(20), as a set
KeywordSet(text) ==
    LET keywords == extract_keywords(TextAnalyzer(text), 20)
    IN  {keywords[i][1] : i \in 1..Len(keywords)}

\* list(S): the elements of a set in the order its iteration yields them, which
\* follows the hashes of the strings and so the hash seed of the process;
\* every order is possible
ListsOf(S) == {l \in [1..Cardinality(S) -> S] : \A x \in S : \E i \in 1..Cardinality(S) : l[i] = x}

\* ', '.join(items)
RECURSIVE JoinComma(_)
JoinComma(items) ==
    IF items = <<>> THEN ""
    ELSE IF Len(items) = 1 THEN items[1]
    ELSE items[1] \o ", " \o JoinComma(Tail(items))

\* items[:10]
First10(items) == SubSeq(items, 1, Min(10, Len(items)))

\* the iterations of the three sets that one call of compare_documents lists
CompareIterations(doc1, doc2) ==
    [unique_to_doc1 : ListsOf(KeywordSet(doc1) \ KeywordSet(doc2)),
     unique_to_doc2 : ListsOf(KeywordSet(doc2) \ KeywordSet(doc1)),
     common_keywords : ListsOf(KeywordSet(doc1) \cap KeywordSet(doc2))]

\* a similarity that divides by the sizes of the two sets added up
SimilarityOfSum(common, all) ==
    IF all > 0 THEN Round2(common * 100, all + common) ELSE 0

\* round((len(common_keywords) / len(all_keywords)) * 100, 2), or 0.0 when
\* there is no keyword; in hundredths
SimilarityScore(common, all) ==
    IF all > 0 THEN Round2(common * 100, all) ELSE 0

\* a recommendation whose bands include their lower ends
RecommendationInclusive(common, all) ==
    IF all > 0 /\ common * 100 >= 70 * all THEN "Documents are highly similar"
    ELSE IF all > 0 /\ common * 100 >= 40 * all
         THEN "Documents have moderate similarity"
         ELSE "Documents are substantially different"

\* the recommendation, chosen by the similarity before it is rounded
Recommendation(common, all) ==
    IF all > 0 /\ common * 100 > 70 * all THEN "Documents are highly similar"
    ELSE IF all > 0 /\ common * 100 > 40 * all
         THEN "Documents have moderate similarity"
         ELSE "Documents are substantially different"

\* compare_documents; iter is the iteration order of its three sets in this
\* call, and similarity_score is in hundredths
compare_documents(doc1, doc2, iter) ==
    LET keywords1 == KeywordSet(doc1)
        keywords2 == KeywordSet(doc2)
        common == Cardinality(keywords1 \cap keywords2)
        all == Cardinality(keywords1 \cup keywords2)
        key_differences ==
            (IF iter.unique_to_doc1 # <<>>
             THEN <<"Unique to Document 1: " \o JoinComma(First10(iter.unique_to_doc1))>>
             ELSE <<>>)
            \o (IF iter.unique_to_doc2 # <<>>
                THEN <<"Unique to Document 2: " \o JoinComma(First10(iter.unique_to_doc2))>>
                ELSE <<>>)
        common_elements == First10(iter.common_keywords)
    IN  Return(
          [similarity_score |-> SimilarityScore(common, all),
           key_differences |->
              IF key_differences # <<>> THEN key_differences
              ELSE <<"No significant differences found">>,
           common_elements |->
              IF common_elements # <<>> THEN common_elements
              ELSE <<"No common elements found">>,
           recommendation |-> Recommendation(common, all)])

\* the analysis batch_analyze runs on one item; env is what the sentiment
\* capability and the clock answer during it
AnalyzeAs(analysis_type, text, env) ==
    IF analysis_type = "text" THEN analyze_text(text, env.blob)
    ELSE IF analysis_type = "legal"
         THEN analyze_legal_document(text, None, env.blob, env.now)
    ELSE IF analysis_type = "feedback" THEN analyze_feedback(text, env.blob)
    ELSE Raise("ValueError", "Unknown analysis type: " \o analysis_type)

\* str(idx) for the indices of a batch
IndexStr(idx) == <<"0", "1", "2", "3", "4", "5", "6", "7", "8", "9", "10", "11">>[idx + 1]

\* the bookkeeping of batch_analyze after one item: its entry is appended; a
\* failure is counted, and its message kept and logged
Record(st, idx, outcome) ==
    IF outcome.ok
    THEN [st EXCEPT !.results = Append(@, [index |-> idx, success |-> TRUE,
                                           result |-> outcome.value])]
    ELSE [results |-> Append(st.results, [index |-> idx, success |-> FALSE,
                                          error |-> outcome.msg]),
          failed_count |-> st.failed_count + 1,
          errors |-> Append(st.errors, "Text " \o IndexStr(idx) \o ": " \o outcome.msg),
          log |-> st.log \o outcome.log
                  \o <<"Text " \o IndexStr(idx) \o ": " \o outcome.msg>>]

\* a loop that gives up at the first failure: every later item fails with it
BatchItemAborting(st, idx, text, analysis_type, env) ==
    Record(st, idx, IF st.failed_count > 0 THEN Raise("ValueError", "aborted")
                    ELSE AnalyzeAs(analysis_type, text, env))

\* a loop that keeps the failures ahead of the successes
BatchItemFailuresFirst(st, idx, text, analysis_type, env) ==
    LET outcome == AnalyzeAs(analysis_type, text, env)
        st2 == Record([st EXCEPT !.results = <<>>], idx, outcome)
    IN  [st2 EXCEPT !.results = IF outcome.ok THEN st.results \o @ ELSE @ \o st.results]

\* one pass of the loop of batch_analyze: try the analysis of the kind on the
\* item, except Exception
BatchItem(st, idx, text, analysis_type, env) ==
    Record(st, idx, AnalyzeAs(analysis_type, text, env))

\* for idx, text in enumerate(texts), from item idx on
RECURSIVE BatchLoop(_, _, _, _, _)
BatchLoop(st, idx, texts, analysis_type, envs) ==
    IF idx >= Len(texts) THEN st
    ELSE BatchLoop(BatchItem(st, idx, texts[idx + 1], analysis_type, envs[idx + 1]),
                   idx + 1, texts, analysis_type, envs)

\* a report that always carries the error list, empty or not
BatchReportWithList(texts, st) ==
    [total_processed |-> Len(texts),
     results |-> st.results,
     failed_count |-> st.failed_count,
     errors |-> Some(st.errors)]

\* what batch_analyze returns from the final bookkeeping
BatchReport(texts, st) ==
    [total_processed |-> Len(texts),
     results |-> st.results,
     failed_count |-> st.failed_count,
     errors |-> IF st.errors # <<>> THEN Some(st.errors) ELSE None]

BatchStart == [results |-> <<>>, failed_count |-> 0, errors |-> <<>>, log |-> <<>>]

\* the report of a batch and the lines that it and the analyses it called
\* handed to logger.error
BatchOutcome(texts, st) == [report |-> BatchReport(texts, st), log |-> st.log]

batch_analyze(texts, analysis_type, envs) ==
    BatchOutcome(texts, BatchLoop(BatchStart, 0, texts, analysis_type, envs))

(***************************************************************************)
(* The analysed documents: up to MaxFrags fragments, concatenated          *)
(***************************************************************************)
Fragments ==
    {"Penalty breach default waiver. It must, it shall! ",
     "penalties termination liability damages indemnify indemnification forfeiture non-refundable irrevocable unconditional binding irreversible obligations requirements mandatory ",
     "Restricted: prohibition, prohibited, forbidden; compulsory and necessary. ",
     "The cat sat. The cat sat on the mat.",
     "Hello. Hello. Hello. Hello. Hello. Hello. Hello. Go. Go. Go. Go. Go. Go. Go. Go. Go. Go. Go go.",
     " tv  123\n\te?! "}

Documents ==
    {Join(frags) : frags \in UNION {[1..n -> Fragments] : n \in 0..MaxFrags}}

(***************************************************************************)
(* Specification SpecCore: one analyzer object and the operations on it    *)
(***************************************************************************)
\* the parts of the state a specification does not use stay as they start
CoreIdle == analyzer = None /\ result = None

BatchIdle == call = None

ReproIdle == runs = None /\ comparison = None /\ upload = None

HttpIdle == settings = None /\ exchange = None /\ store = None

\* the numbers of keywords asked for: those of the callers (5, 20), and
\* numbers below the number of keywords of a short text
TopNs == {0, 2, 5, 20}

InitCore ==
    /\ analyzer \in {LegalAnalyzer(text, None) : text \in Documents}
    /\ result = None
    /\ BatchIdle /\ ReproIdle /\ HttpIdle

\* reading the `words` property
Words ==
    /\ result' = Some([op |-> "words", value |-> words(analyzer)])
    /\ analyzer' = AfterWords(analyzer)
    /\ UNCHANGED <<batchVars, reproVars, httpVars>>

\* reading the `sentences` property
Sentences ==
    /\ result' = Some([op |-> "sentences", value |-> sentences(analyzer)])
    /\ analyzer' = AfterSentences(analyzer)
    /\ UNCHANGED <<batchVars, reproVars, httpVars>>

CountSyllables ==
    /\ result' = Some([op |-> "_count_syllables", value |-> _count_syllables(analyzer)])
    /\ analyzer' = AfterWords(analyzer)
    /\ UNCHANGED <<batchVars, reproVars, httpVars>>

ScoreReadability ==
    /\ result' = Some([op |-> "readability_score", value |-> readability_score(analyzer)])
    /\ analyzer' = AfterSentences(AfterWords(analyzer))
    /\ UNCHANGED <<batchVars, reproVars, httpVars>>

WordCount ==
    /\ result' = Some([op |-> "word_count", value |-> word_count(analyzer)])
    /\ analyzer' = AfterWords(analyzer)
    /\ UNCHANGED <<batchVars, reproVars, httpVars>>

SentenceCount ==
    /\ result' = Some([op |-> "sentence_count", value |-> sentence_count(analyzer)])
    /\ analyzer' = AfterSentences(analyzer)
    /\ UNCHANGED <<batchVars, reproVars, httpVars>>

\* extract_keywords(top_n); the callers ask for 5 and 20
ExtractKeywords ==
    /\ \E top_n \in TopNs :
          result' = Some([op |-> "extract_keywords", top_n |-> top_n,
                          value |-> extract_keywords(analyzer, top_n)])
    /\ analyzer' = AfterWords(analyzer)
    /\ UNCHANGED <<batchVars, reproVars, httpVars>>

CalculateRiskScore ==
    /\ result' = Some([op |-> "calculate_risk_score",
                       value |-> calculate_risk_score(analyzer)])
    /\ UNCHANGED <<analyzer, batchVars, reproVars, httpVars>>

NextCore ==
    \/ Words
    \/ Sentences
    \/ WordCount
    \/ SentenceCount
    \/ ExtractKeywords
    \/ CountSyllables
    \/ ScoreReadability
    \/ CalculateRiskScore

SpecCore == InitCore /\ [][NextCore]_vars

(***************************************************************************)
(* Properties of the analyzer operations (SpecCore)                        *)
(***************************************************************************)
LastOp == IF result = None THEN "none" ELSE result[1].op

LastValue == result[1].value

TermSet(terms) == {terms[i] : i \in 1..Len(terms)}

\* C9: calculate_risk_score counts every high-risk and every medium-risk term
\* once when it is a substring of the lower-cased text, so that doubling the
\* text changes nothing; risk_score = min(100, (3*high + medium)/50*100) lies
\* in [0,100]; the level is High Risk from 70, Medium Risk from 40 and Low
\* Risk below; total_risk_terms = high + medium; 4 high and 2 medium terms
\* give 28.0 and Low Risk.
RiskScoreIsPresenceWeighted ==
    LastOp = "calculate_risk_score" =>
        LET r == LastValue
            text_lower == lower(analyzer.text)
            high == Cardinality({t \in TermSet(HIGH_RISK_TERMS) : Contains(text_lower, t)})
            medium == Cardinality({t \in TermSet(MEDIUM_RISK_TERMS) : Contains(text_lower, t)})
            raw == 3 * high + medium
        IN  /\ r.high_risk_terms_found = high
            /\ r.medium_risk_terms_found = medium
            /\ r.total_risk_terms = high + medium
            /\ r.risk_score = (IF 2 * raw > 100 THEN 10000 ELSE 200 * raw)
            /\ r.risk_score >= 0 /\ r.risk_score <= 10000
            /\ (r.risk_level = "High Risk") = (r.risk_score >= 7000)
            /\ (r.risk_level = "Medium Risk") = (r.risk_score >= 4000 /\ r.risk_score < 7000)
            /\ (r.risk_level = "Low Risk") = (r.risk_score < 4000)
            /\ r.risk_level \in {"High Risk", "Medium Risk", "Low Risk"}
            /\ (high = 4 /\ medium = 2) => (r.risk_score = 2800 /\ r.risk_level = "Low Risk")
            /\ calculate_risk_score(LegalAnalyzer(analyzer.text \o " " \o analyzer.text, None)) = r

\* the documented scenario: 4 high-risk and 2 medium-risk terms, each present
\* once, scored 28.0
RiskScenarioScored ==
    /\ LastOp = "calculate_risk_score"
    /\ analyzer.text = "Penalty breach default waiver. It must, it shall! "
    /\ LastValue.high_risk_terms_found = 4
    /\ LastValue.medium_risk_terms_found = 2
    /\ LastValue.risk_score = 2800

\* C10: flesch_reading_ease lies in [0,100] and every word token, also one
\* without vowels, one of digits only and one ending in 'e', is estimated at
\* one syllable or more, so the syllable total is at least word_count.
ReadabilityAndSyllablesBounded ==
    /\ LastOp \in {"_count_syllables", "readability_score"} =>
          \A i \in 1..Len(words(analyzer)) : SyllablesOfWord(words(analyzer)[i]) >= 1
    /\ LastOp = "_count_syllables" => LastValue >= word_count(analyzer)
    /\ LastOp = "readability_score" =>
          /\ LastValue.flesch_reading_ease >= 0
          /\ LastValue.flesch_reading_ease <= 10000

\* readability was scored for a text with the tokens "tv", "123" and "the"
ReadabilityOfOddTokensScored ==
    /\ LastOp = "readability_score"
    /\ {"tv", "123", "e", "the"} \subseteq {words(analyzer)[i] : i \in 1..Len(words(analyzer))}
    /\ LastValue.readability_level # "Unable to calculate"

\* the level that a reported score, in hundredths, selects
LevelOfReported(score) == ReadabilityLevel(score, 100)

\* C11: readability_score returns 0.0 and "Unable to calculate" whenever
\* word_count or sentence_count is 0; otherwise the level it reports is the
\* level that the score it reports selects: from 90 Very Easy, from 80 Easy,
\* from 70 Fairly Easy, from 60 Standard, from 50 Fairly Difficult, from 30
\* Difficult, below that Very Difficult.
ReadabilityLevelMatchesScore ==
    LastOp = "readability_score" =>
        IF word_count(analyzer) = 0 \/ sentence_count(analyzer) = 0
        THEN LastValue = [flesch_reading_ease |-> 0,
                          readability_level |-> "Unable to calculate"]
        ELSE LastValue.readability_level = LevelOfReported(LastValue.flesch_reading_ease)

\* the positions of s where a word token starts: a word character that does
\* not follow a word character
WordTokenStarts(s) ==
    {i \in 1..Len(s) :
        IsWordChar(Char(s, i)) /\ (i = 1 \/ ~IsWordChar(Char(s, i - 1)))}

\* a character that is neither whitespace nor sentence punctuation
IsSolid(c) == ~IsSpace(c) /\ ~IsSentenceEnd(c)

\* the positions of s where a segment between runs of '.', '!' and '?' has its
\* first character that trimming keeps
SegmentStarts(s) ==
    {i \in 1..Len(s) :
        /\ IsSolid(Char(s, i))
        /\ \A j \in 1..(i - 1) :
              IsSolid(Char(s, j)) => \E k \in (j + 1)..(i - 1) : IsSentenceEnd(Char(s, k))}

\* C12: word_count is the number of word tokens of the normalized text, and
\* sentence_count the number of segments, non-empty after trimming, that
\* splitting the normalized text on runs of '.', '!' and '?' gives, whether
\* the lists were cached or not; "The cat sat. The cat sat on the mat." has 9
\* words and 2 sentences.
CountsMatchTokensAndSegments ==
    /\ LastOp = "word_count" =>
          /\ LastValue = Cardinality(WordTokenStarts(_clean_text(analyzer.text)))
          /\ analyzer.text = "The cat sat. The cat sat on the mat." => LastValue = 9
    /\ LastOp = "sentence_count" =>
          /\ LastValue = Cardinality(SegmentStarts(_clean_text(analyzer.text)))
          /\ analyzer.text = "The cat sat. The cat sat on the mat." => LastValue = 2

\* the sentences of the example were counted after its words had been listed
CatSentencesCounted ==
    /\ LastOp = "sentence_count"
    /\ analyzer.text = "The cat sat. The cat sat on the mat."
    /\ analyzer._word_list # None
    /\ LastValue = 2

\* the word tokens of the analysed text
Tokens == ComputeWords(_clean_text(analyzer.text))

\* the tokens that are neither stop words nor of length 2 or less
FilteredTokens(tokens) ==
    {tokens[i] : i \in {j \in 1..Len(tokens) :
                          tokens[j] \notin stop_words /\ Len(tokens[j]) > 2}}

\* how often each token occurs, and where it occurs first
Occurrences(tokens) ==
    [word \in {tokens[i] : i \in 1..Len(tokens)} |->
        Cardinality({i \in 1..Len(tokens) : tokens[i] = word})]

FirstOccurrence(tokens) ==
    [word \in {tokens[i] : i \in 1..Len(tokens)} |->
        CHOOSE i \in 1..Len(tokens) :
            tokens[i] = word /\ \A j \in 1..(i - 1) : tokens[j] # word]

FilteredCounts(keywords, top_n, filtered, occurrences) ==
    /\ Len(keywords) <= top_n
    /\ Len(keywords) <= Cardinality(filtered)
    /\ \A i \in 1..Len(keywords) :
          /\ keywords[i][1] \notin stop_words
          /\ Len(keywords[i][1]) > 2
          /\ keywords[i][2] = occurrences[keywords[i][1]]

\* C13: extract_keywords(n) returns at most n entries and at most as many as
\* there are distinct filtered tokens; no returned word is a stop word or of
\* length 2 or less; every frequency is the number of occurrences of its
\* word in the token list.
KeywordsAreFilteredCounts ==
    LastOp = "extract_keywords" =>
        \A tokens \in {Tokens} :
            \A filtered \in {FilteredTokens(tokens)}, occurrences \in {Occurrences(tokens)} :
                FilteredCounts(LastValue, result[1].top_n, filtered, occurrences)

CutToRequested(keywords, top_n, tokens) ==
    /\ top_n > 0
    /\ Len(keywords) = top_n
    /\ Len(keywords) < Cardinality(FilteredTokens(tokens))
    /\ \E i \in 1..Len(tokens) : tokens[i] \in stop_words
    /\ \E i \in 1..Len(tokens) : tokens[i] \notin stop_words /\ Len(tokens[i]) <= 2
    /\ \E i \in 1..Len(keywords) : keywords[i][2] >= 2

\* fewer keywords were asked for than a text with stop words, short tokens
\* and a repeated word has
KeywordsCutToRequested ==
    /\ LastOp = "extract_keywords"
    /\ \E tokens \in {Tokens} : CutToRequested(LastValue, result[1].top_n, tokens)

\* the place of each filtered token in the full ranking: after every token
\* that is more frequent, or as frequent and first met earlier in the text
RankOf(filtered, occurrences, first) ==
    [word \in filtered |->
        1 + Cardinality({other \in filtered :
                \/ occurrences[other] > occurrences[word]
                \/ /\ occurrences[other] = occurrences[word]
                   /\ first[other] < first[word]})]

PrefixOfRanking(keywords, top_n, filtered, occurrences, first, rank) ==
    /\ Len(keywords) = Min(top_n, Cardinality(filtered))
    /\ \A i \in 1..Len(keywords) :
          /\ keywords[i][1] \in filtered
          /\ rank[keywords[i][1]] = i
          /\ keywords[i][2] = occurrences[keywords[i][1]]
    /\ \A i \in 1..(Len(keywords) - 1) :
          \/ keywords[i][2] > keywords[i + 1][2]
          \/ /\ keywords[i][2] = keywords[i + 1][2]
             /\ first[keywords[i][1]] < first[keywords[i + 1][1]]

StableRanking(keywords, top_n, tokens) ==
    \A filtered \in {FilteredTokens(tokens)}, occurrences \in {Occurrences(tokens)},
       first \in {FirstOccurrence(tokens)} :
        \A rank \in {RankOf(filtered, occurrences, first)} :
            PrefixOfRanking(keywords, top_n, filtered, occurrences, first, rank)

\* C14: the keywords come in non-increasing frequency order, equally
\* frequent ones in the order of their first occurrence in the text, and the
\* list returned for n is exactly the first n entries of the full ranking.
KeywordsArePrefixOfStableRanking ==
    LastOp = "extract_keywords" =>
        \A tokens \in {Tokens} : StableRanking(LastValue, result[1].top_n, tokens)

\* a cut ranking whose last two keywords are equally frequent
KeywordTieCut ==
    /\ LastOp = "extract_keywords"
    /\ Len(LastValue) >= 2
    /\ Len(LastValue) < Cardinality(FilteredTokens(Tokens))
    /\ LastValue[Len(LastValue)][2] = LastValue[Len(LastValue) - 1][2]

(***************************************************************************)
(* batch_analyze called directly, as the service offers it                 *)
(***************************************************************************)
MaxBatch == 2

\* what TextBlob(cleaned_text).sentiment answers: a polarity and a
\* subjectivity in thousandths, or an exception
Blobs ==
    {[raised |-> None, polarity |-> 450, subjectivity |-> 600],
     [raised |-> Some("sentiment lookup failed"), polarity |-> 0, subjectivity |-> 0]}

\* the readings of datetime.now().isoformat()
Clock == {"2024-11-30T10:30:00", "2024-11-30T10:30:01"}

BatchValues ==
    {Str("This lease is between Acme Pty Ltd and Bob. Rent: R5 000 due 1 May 2024; breach means penalty."),
     Str("too short"),
     PyNone}

BatchKinds == {"text", "legal", "feedback", "summary"}

BatchEnvs == [blob : Blobs, now : {"2024-11-30T10:30:00"}]

InitBatch ==
    /\ call = None
    /\ CoreIdle /\ ReproIdle /\ HttpIdle

\* a caller hands a list of values and an analysis kind to batch_analyze; the
\* environment of the call is what the sentiment capability and the clock
\* answer during each item
CallBatch ==
    /\ IF call = None THEN TRUE ELSE call[1].returned # None
    /\ \E n \in 0..MaxBatch :
         \E texts \in [1..n -> BatchValues], envs \in [1..n -> BatchEnvs],
            analysis_type \in BatchKinds :
            call' = Some([texts |-> texts,
                          analysis_type |-> analysis_type,
                          envs |-> envs,
                          returned |-> None])
    /\ UNCHANGED <<coreVars, reproVars, httpVars>>

\* batch_analyze runs and returns
BatchAnalyze ==
    /\ IF call = None THEN FALSE ELSE call[1].returned = None
    /\ call' = Some([call[1] EXCEPT !.returned =
                        Some(batch_analyze(call[1].texts, call[1].analysis_type,
                                           call[1].envs))])
    /\ UNCHANGED <<coreVars, reproVars, httpVars>>

NextBatch ==
    \/ CallBatch
    \/ BatchAnalyze

SpecBatch == InitBatch /\ [][NextBatch]_vars

\* the last call of batch_analyze has returned
BatchReturned == IF call = None THEN FALSE ELSE call[1].returned # None

BatchCall == call[1]

BatchResult == call[1].returned[1].report

\* what analysing item i (0-based) of the last call alone comes to
AloneOutcome(i) ==
    AnalyzeAs(BatchCall.analysis_type, BatchCall.texts[i + 1], BatchCall.envs[i + 1])

Succeeded(entries) == {k \in 1..Len(entries) : entries[k].success}

Failed(entries) == {k \in 1..Len(entries) : ~entries[k].success}

\* C2: batch_analyze returns one entry per input, total_processed is the
\* number of inputs, failed_count plus the number of successful entries is
\* total_processed, failed_count is the number of failed entries and the
\* length of the error list, and the error list is None exactly when
\* failed_count is 0.
BatchCountsAddUp ==
    BatchReturned =>
        LET r == BatchResult
        IN  /\ Len(r.results) = Len(BatchCall.texts)
            /\ r.total_processed = Len(BatchCall.texts)
            /\ r.failed_count + Cardinality(Succeeded(r.results)) = r.total_processed
            /\ r.failed_count = Cardinality(Failed(r.results))
            /\ r.failed_count = IF r.errors = None THEN 0 ELSE Len(r.errors[1])
            /\ (r.errors = None) <=> (r.failed_count = 0)

\* a batch with a failed item and a successful one has returned
BatchMixedReturned ==
    /\ BatchReturned
    /\ BatchResult.failed_count >= 1
    /\ Cardinality(Succeeded(BatchResult.results)) >= 1

\* the entry that stands for the outcome of item i: its index, and its result
\* or its error
EntryOf(i, outcome) ==
    IF outcome.ok THEN [index |-> i, success |-> TRUE, result |-> outcome.value]
    ELSE [index |-> i, success |-> FALSE, error |-> outcome.msg]

AloneFails(i) == ~AloneOutcome(i).ok

\* C3: when analysing item i raises, the batch goes on: the entry of item i
\* carries index i and the error, and every other item j, before or after i,
\* has the outcome of its own analysis alone under the same kind.
BatchItemsIsolated ==
    BatchReturned =>
        \A i \in 0..(Len(BatchCall.texts) - 1) :
            AloneFails(i) =>
                /\ Len(BatchResult.results) = Len(BatchCall.texts)
                /\ ~BatchResult.results[i + 1].success
                /\ \A j \in 0..(Len(BatchCall.texts) - 1) :
                      BatchResult.results[j + 1] = EntryOf(j, AloneOutcome(j))

\* a batch whose first item raised and whose last item was analysed has returned
BatchWentOnAfterFailure ==
    /\ BatchReturned
    /\ Len(BatchCall.texts) = MaxBatch
    /\ AloneFails(0)
    /\ BatchResult.results[MaxBatch].success

\* C4: the entries of a batch are in input order and carry the input index:
\* every index 0..len(texts)-1 is in exactly one entry, and the entry at
\* position i has index i, whether the item succeeded or failed.
BatchEntriesInInputOrder ==
    BatchReturned =>
        LET entries == BatchResult.results
        IN  /\ \A i \in 0..(Len(BatchCall.texts) - 1) :
                  Cardinality({k \in 1..Len(entries) : entries[k].index = i}) = 1
            /\ \A k \in 1..Len(entries) : entries[k].index = k - 1

\* a batch whose first item was analysed and whose last item raised has returned
BatchFailureAfterSuccess ==
    /\ BatchReturned
    /\ Len(BatchCall.texts) = MaxBatch
    /\ BatchResult.results[1].success
    /\ ~BatchResult.results[MaxBatch].success

(***************************************************************************)
(* The request models (app/models/schemas.py); an error is the field and   *)
(* the message that pydantic gives for it                                  *)
(***************************************************************************)
TextMinLength == 10

LegalMinLength == 50

FeedbackMinLength == 10

BatchMinItems == 1

BatchMaxItems == 10

\* str(n) for n >= 0
RECURSIVE str_int(_)
str_int(n) ==
    IF n < 10 THEN <<"0", "1", "2", "3", "4", "5", "6", "7", "8", "9">>[n + 1]
    ELSE str_int(n \div 10) \o str_int(n % 10)

FieldError(field, message) == [field |-> field, message |-> message]

\* the request is refused with the errors of its fields
Invalid(errors) == [ok |-> FALSE, exc |-> "RequestValidationError", errors |-> errors]

\* text: str = Field(..., min_length=n): the value as sent is a str of at
\* least n characters
StrField(v, min_length) ==
    IF v.pytype # "str" THEN <<FieldError("body.text", "Input should be a valid string")>>
    ELSE IF Len(v.s) < min_length
         THEN <<FieldError("body.text", "String should have at least "
                                        \o str_int(min_length) \o " characters")>>
         ELSE <<>>

\* a validator that raises ValueError(message) when the condition holds; it
\* runs on a value that passed the checks of its Field
ValueErrorIf(condition, field, message) ==
    IF condition THEN <<FieldError(field, "Value error, " \o message)>> ELSE <<>>

AnalysisTypeValues == {"text", "legal", "feedback"}

DocumentTypeValues ==
    {"employment_contract", "lease_agreement", "nda", "service_agreement",
     "sales_agreement", "other"}

\* a field of an enum type, absent or sent
EnumField(v, field, values, message) ==
    IF v = None THEN <<>>
    ELSE IF v[1] \in values THEN <<>>
    ELSE <<FieldError(field, message)>>

AnalysisTypeField(v) ==
    EnumField(v, "body.analysis_type", AnalysisTypeValues,
              "Input should be 'text', 'legal' or 'feedback'")

\* the model, or the refusal, that a body and the errors of its fields come to
Validated(errors, model) == IF errors = <<>> THEN Return(model) ELSE Invalid(errors)

\* TextAnalysisRequest.text_not_empty
TextFieldErrors(v) ==
    IF StrField(v, TextMinLength) # <<>> THEN StrField(v, TextMinLength)
    ELSE ValueErrorIf(strip(v.s) = "", "body.text", "Text content cannot be empty")

TextAnalysisRequest(body) ==
    Validated(TextFieldErrors(body.text) \o AnalysisTypeField(body.analysis_type),
              [text |-> strip(body.text.s),
               analysis_type |-> IF body.analysis_type = None THEN "text"
                                 ELSE body.analysis_type[1]])

\* LegalAnalysisRequest.text_not_empty
LegalFieldErrors(v) ==
    IF StrField(v, LegalMinLength) # <<>> THEN StrField(v, LegalMinLength)
    ELSE IF strip(v.s) = ""
         THEN ValueErrorIf(TRUE, "body.text", "Legal document text cannot be empty")
         ELSE ValueErrorIf(Len(strip(v.s)) < LegalMinLength, "body.text",
                           "Legal document text too short (minimum 50 characters)")

LegalAnalysisRequest(body) ==
    Validated(LegalFieldErrors(body.text)
              \o EnumField(body.document_type, "body.document_type", DocumentTypeValues,
                           "Input should be 'employment_contract', 'lease_agreement', 'nda', 'service_agreement', 'sales_agreement' or 'other'"),
              [text |-> strip(body.text.s), document_type |-> body.document_type])

\* FeedbackAnalysisRequest.text_not_empty
FeedbackFieldErrors(v) ==
    IF StrField(v, FeedbackMinLength) # <<>> THEN StrField(v, FeedbackMinLength)
    ELSE ValueErrorIf(strip(v.s) = "", "body.text", "Feedback text cannot be empty")

FeedbackAnalysisRequest(body) ==
    Validated(FeedbackFieldErrors(body.text),
              [text |-> strip(body.text.s), source |-> body.source])

\* texts: List[str] = Field(..., min_items=1, max_items=10), and then
\* BatchAnalysisRequest.texts_not_empty
TextsFieldErrors(texts) ==
    IF \E i \in 1..Len(texts) : texts[i].pytype # "str"
    THEN <<FieldError("body.texts", "Input should be a valid string")>>
    ELSE IF Len(texts) < BatchMinItems
         THEN <<FieldError("body.texts", "List should have at least "
                                         \o str_int(BatchMinItems)
                                         \o " item after validation, not "
                                         \o str_int(Len(texts)))>>
    ELSE IF Len(texts) > BatchMaxItems
         THEN <<FieldError("body.texts", "List should have at most "
                                         \o str_int(BatchMaxItems)
                                         \o " items after validation, not "
                                         \o str_int(Len(texts)))>>
    ELSE ValueErrorIf(\E i \in 1..Len(texts) : strip(texts[i].s) = "",
                      "body.texts", "All texts must have content")

BatchAnalysisRequest(body) ==
    Validated(TextsFieldErrors(body.texts) \o AnalysisTypeField(body.analysis_type),
              [texts |-> [i \in 1..Len(body.texts) |-> strip(body.texts[i].s)],
               analysis_type |-> IF body.analysis_type = None THEN "text"
                                 ELSE body.analysis_type[1]])

(***************************************************************************)
(* Authentication (app/core/auth.py)                                       *)
(***************************************************************************)
HTTPException(status_code, detail, log) ==
    [ok |-> FALSE, exc |-> "HTTPException", status_code |-> status_code,
     msg |-> detail, log |-> log]

\* a dependency that returned: the user, or None, and what it logged
Resolved(user, log) == [ok |-> TRUE, value |-> user, log |-> log]

\* verify_token_with_supabase; provider is what the GET to the identity
\* provider comes to: a response with a status and a JSON object, or a
\* RequestError
verify_token_with_supabase(cfg, token, provider) ==
    IF cfg.SUPABASE_URL = None
    THEN HTTPException(500, "Supabase is not configured", <<>>)
    ELSE IF provider.raised # None
    THEN HTTPException(503, "Could not verify token: " \o provider.raised[1],
                       <<"Error verifying token: " \o provider.raised[1]>>)
    ELSE IF provider.status_code = 200
    THEN IF provider.json.id = None THEN Raise("KeyError", "'id'")
         ELSE IF provider.json.email = None THEN Raise("KeyError", "'email'")
         ELSE Resolved(Some([id |-> provider.json.id[1],
                             email |-> provider.json.email[1],
                             user_metadata |-> provider.json.user_metadata,
                             created_at |-> provider.json.created_at]), <<>>)
    ELSE HTTPException(401, "Invalid authentication credentials", <<>>)

\* except HTTPException: return None
NoneOnHTTPException(verified) ==
    IF verified.ok THEN verified
    ELSE IF verified.exc = "HTTPException" THEN Resolved(None, verified.log)
    ELSE verified

get_current_user_optional(cfg, credentials, provider) ==
    IF credentials = None THEN Resolved(None, <<>>)
    ELSE NoneOnHTTPException(verify_token_with_supabase(cfg, credentials[1], provider))

(***************************************************************************)
(* The persistence service (app/services/database_service.py)              *)
(***************************************************************************)
\* DatabaseService(): the attribute that __init__ sets and the methods of
\* the class
DatabaseService(cfg) ==
    [client |-> IF cfg.SUPABASE_URL = None \/ cfg.SUPABASE_KEY = None THEN None
                ELSE Some("client"),
     is_configured |-> "method",
     get_user_profile |-> "method",
     update_user_profile |-> "method",
     create_document |-> "method",
     get_user_documents |-> "method",
     create_analysis |-> "method",
     get_user_analyses |-> "method",
     get_analysis_by_id |-> "method",
     get_user_statistics |-> "method",
     log_api_usage |-> "method"]

\* str(e) of the AttributeError that reading a missing attribute raises
NoAttributeMsg(name) == "'DatabaseService' object has no attribute '" \o name \o "'"

(***************************************************************************)
(* The routes (app/api/routes.py)                                          *)
(***************************************************************************)
\* request.text[:200]
Preview(text) == SubSeq(text, 1, Min(200, Len(text)))

UserWord(current_user) == IF current_user = None THEN "anonymous" ELSE "authenticated"

\* the block that saves as it ran: the exception that left it, the attributes
\* of db_service it read, the calls of save_analysis it made, its log lines
Persisted(raised, reads, saves, log) ==
    [raised |-> raised, reads |-> reads, saves |-> saves, log |-> log]

\* a condition that reads db_service.db_available whoever calls
PersistEager(db, current_user, save, results) ==
    IF "db_available" \notin DOMAIN db
    THEN Persisted(Some(NoAttributeMsg("db_available")), <<"db_available">>, <<>>, <<>>)
    ELSE Persisted(None, <<"db_available">>, <<>>, <<>>)

\* `if current_user and db_service.db_available:` and the block under it:
\* try: await db_service.save_analysis(...), except Exception: logger.warning
Persist(db, current_user, save, results) ==
    IF current_user = None THEN Persisted(None, <<>>, <<>>, <<>>)
    ELSE IF "db_available" \notin DOMAIN db
    THEN Persisted(Some(NoAttributeMsg("db_available")), <<"db_available">>, <<>>, <<>>)
    ELSE IF db["db_available"] = FALSE
    THEN Persisted(None, <<"db_available">>, <<>>, <<>>)
    ELSE IF "save_analysis" \notin DOMAIN db
    THEN Persisted(None, <<"db_available", "save_analysis">>, <<>>,
                   <<"Failed to save analysis: " \o NoAttributeMsg("save_analysis")>>)
    ELSE Persisted(None, <<"db_available", "save_analysis">>,
                   <<[user_id |-> current_user[1].id,
                      analysis_type |-> save.analysis_type,
                      document_type |-> save.document_type,
                      text_preview |-> save.text_preview,
                      results |-> results]>>,
                   save.saved)

\* what a request was answered with, and what answering it did
Answer(status_code, body, log, persisted) ==
    [status_code |-> status_code, body |-> body, log |-> log,
     reads |-> persisted.reads, saves |-> persisted.saves]

NotPersisted == Persisted(None, <<>>, <<>>, <<>>)

\* Response(success=True, message=..., **result), with the timestamp that
\* BaseResponse takes from the clock
Response(message, now, report) ==
    [k \in {"success", "message", "timestamp"} \cup DOMAIN report |->
        IF k \in DOMAIN report THEN report[k]
        ELSE IF k = "success" THEN TRUE
        ELSE IF k = "message" THEN message
        ELSE now]

\* the try block of a route from the service call on: the service raised
\* (except ValueError: 400, except Exception: 500), or the block that saves
\* raised (except Exception: 500), or the response is returned
RouteAnswer(route, requested, now, analysis, persisted) ==
    IF ~analysis.ok
    THEN IF analysis.exc = "ValueError"
         THEN Answer(400, [detail |-> analysis.msg],
                     <<requested>> \o analysis.log
                     \o <<"Validation error in " \o route.what \o ": " \o analysis.msg>>,
                     NotPersisted)
         ELSE Answer(500, [detail |-> route.failed],
                     <<requested>> \o analysis.log
                     \o <<"Error in " \o route.what \o ": " \o analysis.msg>>,
                     NotPersisted)
    ELSE IF persisted.raised # None
    THEN Answer(500, [detail |-> route.failed],
                <<requested>>
                \o <<"Error in " \o route.what \o ": " \o persisted.raised[1]>>,
                persisted)
    ELSE Answer(200, Response(route.message, now, analysis.value),
                <<requested>> \o persisted.log, persisted)

\* POST /analyze/text once analyze_text has answered
TextRoute(db, request, current_user, now, analysis) ==
    RouteAnswer([what |-> "text analysis", failed |-> "Text analysis failed",
                 message |-> "Text analysis completed successfully"],
                "Text analysis requested: " \o str_int(Len(request.text))
                \o " characters, user=" \o UserWord(current_user),
                now, analysis,
                Persist(db, current_user,
                        [analysis_type |-> "text", document_type |-> None,
                         text_preview |-> Preview(request.text),
                         saved |-> <<"Analysis saved for user " \o current_user[1].id>>],
                        analysis.value))

route_analyze_text(db, request, current_user, env) ==
    TextRoute(db, request, current_user, env.now,
              analyze_text(Str(request.text), env.blob))

\* str(request.document_type) in the log line
DocumentTypeWord(document_type) ==
    IF document_type = None THEN "None" ELSE "DocumentType." \o document_type[1]

\* POST /analyze/legal once analyze_legal_document has answered
LegalRoute(db, request, current_user, now, analysis) ==
    RouteAnswer([what |-> "legal analysis", failed |-> "Legal analysis failed",
                 message |-> "Legal analysis completed successfully"],
                "Legal analysis requested: " \o str_int(Len(request.text))
                \o " characters, type=" \o DocumentTypeWord(request.document_type)
                \o ", user=" \o UserWord(current_user),
                now, analysis,
                Persist(db, current_user,
                        [analysis_type |-> "legal",
                         document_type |-> request.document_type,
                         text_preview |-> Preview(request.text),
                         saved |-> <<"Legal analysis saved for user "
                                     \o current_user[1].id>>],
                        analysis.value))

route_analyze_legal_document(db, request, current_user, env) ==
    LegalRoute(db, request, current_user, env.now,
               analyze_legal_document(Str(request.text), request.document_type,
                                      env.blob, env.now))

\* POST /analyze/feedback once analyze_feedback has answered
FeedbackRoute(db, request, current_user, now, analysis) ==
    RouteAnswer([what |-> "feedback analysis", failed |-> "Feedback analysis failed",
                 message |-> "Feedback analysis completed successfully"],
                "Feedback analysis requested: " \o str_int(Len(request.text))
                \o " characters, user=" \o UserWord(current_user),
                now, analysis,
                Persist(db, current_user,
                        [analysis_type |-> "feedback", document_type |-> None,
                         text_preview |-> Preview(request.text),
                         saved |-> <<>>],
                        analysis.value))

route_analyze_feedback(db, request, current_user, env) ==
    FeedbackRoute(db, request, current_user, env.now,
                  analyze_feedback(Str(request.text), env.blob))

\* POST /analyze/batch once batch_analyze has answered; nothing is saved
BatchRoute(request, current_user, now, outcome) ==
    Answer(200,
           Response("Batch analysis completed: "
                    \o str_int(outcome.report.total_processed) \o " texts processed",
                    now, outcome.report),
           <<"Batch analysis requested: " \o str_int(Len(request.texts))
             \o " texts, user=" \o UserWord(current_user)>> \o outcome.log,
           NotPersisted)

route_batch_analyze(request, current_user, env) ==
    BatchRoute(request, current_user, env.now,
               batch_analyze([i \in 1..Len(request.texts) |-> Str(request.texts[i])],
                             request.analysis_type,
                             [i \in 1..Len(request.texts) |-> env]))

(***************************************************************************)
(* FastAPI around a route (app/main.py): the dependency of the route is    *)
(* called, then the body is validated, then the route runs                 *)
(***************************************************************************)
\* general_exception_handler
Unhandled(path, now, raised) ==
    Answer(500,
           [success |-> FALSE, error |-> "Internal server error",
            message |-> "An unexpected error occurred. Please try again later.",
            timestamp |-> now],
           raised.log \o <<"Unhandled exception on " \o path \o ": " \o raised.msg>>,
           NotPersisted)

\* the messages of the errors, as the log line lists them
RECURSIVE Messages(_)
Messages(errors) ==
    IF errors = <<>> THEN ""
    ELSE errors[1].field \o ": " \o errors[1].message
         \o (IF Len(errors) = 1 THEN "" ELSE "; " \o Messages(Tail(errors)))

\* validation_exception_handler
Unprocessable(path, now, who, validated) ==
    Answer(422,
           [success |-> FALSE, error |-> "Validation error",
            details |-> validated.errors, timestamp |-> now],
           who.log \o <<"Validation error on " \o path \o ": "
                        \o Messages(validated.errors)>>,
           NotPersisted)

\* the answer to a request, and the texts that were handed to an analyzer
\* while it was served, each with the kind of its analysis
Served(path, now, who, validated, answer, analysed) ==
    IF ~who.ok
    THEN [answer |-> Unhandled(path, now, who), analysed |-> <<>>]
    ELSE IF ~validated.ok
    THEN [answer |-> Unprocessable(path, now, who, validated), analysed |-> <<>>]
    ELSE [answer |-> [answer EXCEPT !.log = who.log \o @], analysed |-> analysed]

Analysed(kind, text) == [kind |-> kind, text |-> text]

post_analyze_text(cfg, db, req) ==
    Served("/api/v1/analyze/text", req.env.now,
           get_current_user_optional(cfg, req.credentials, req.provider),
           TextAnalysisRequest(req.body),
           route_analyze_text(
               db, TextAnalysisRequest(req.body).value,
               get_current_user_optional(cfg, req.credentials, req.provider).value,
               req.env),
           <<Analysed("text", TextAnalysisRequest(req.body).value.text)>>)

post_analyze_legal(cfg, db, req) ==
    Served("/api/v1/analyze/legal", req.env.now,
           get_current_user_optional(cfg, req.credentials, req.provider),
           LegalAnalysisRequest(req.body),
           route_analyze_legal_document(
               db, LegalAnalysisRequest(req.body).value,
               get_current_user_optional(cfg, req.credentials, req.provider).value,
               req.env),
           <<Analysed("legal", LegalAnalysisRequest(req.body).value.text)>>)

post_analyze_feedback(cfg, db, req) ==
    Served("/api/v1/analyze/feedback", req.env.now,
           get_current_user_optional(cfg, req.credentials, req.provider),
           FeedbackAnalysisRequest(req.body),
           route_analyze_feedback(
               db, FeedbackAnalysisRequest(req.body).value,
               get_current_user_optional(cfg, req.credentials, req.provider).value,
               req.env),
           <<Analysed("feedback", FeedbackAnalysisRequest(req.body).value.text)>>)

\* the items of a batch, each analysed as the kind of the batch
BatchAnalysed(request) ==
    [i \in 1..Len(request.texts) |-> Analysed(request.analysis_type, request.texts[i])]

post_analyze_batch(cfg, req) ==
    Served("/api/v1/analyze/batch", req.env.now,
           get_current_user_optional(cfg, req.credentials, req.provider),
           BatchAnalysisRequest(req.body),
           route_batch_analyze(
               BatchAnalysisRequest(req.body).value,
               get_current_user_optional(cfg, req.credentials, req.provider).value,
               req.env),
           BatchAnalysed(BatchAnalysisRequest(req.body).value))

(***************************************************************************)
(* Specification Spec: the application serves requests to its four         *)
(* analysis endpoints                                                      *)
(***************************************************************************)
\* Settings(): the environment sets the identity provider and its key, or not
Settings ==
    {[SUPABASE_URL |-> None, SUPABASE_KEY |-> None],
     [SUPABASE_URL |-> Some("https://project.supabase.co"), SUPABASE_KEY |-> None],
     [SUPABASE_URL |-> Some("https://project.supabase.co"), SUPABASE_KEY |-> Some("key")]}

\* what the identity provider does with GET /auth/v1/user
ProviderUser ==
    [raised |-> None, status_code |-> 200,
     json |-> [id |-> Some("user-1"), email |-> Some("thandi@example.co.za"),
               user_metadata |-> "{}", created_at |-> "2024-01-01T00:00:00Z"]]

ProviderRejects ==
    [raised |-> None, status_code |-> 401,
     json |-> [id |-> None, email |-> None, user_metadata |-> "{}", created_at |-> "None"]]

Providers ==
    {ProviderUser,
     ProviderRejects,
     [ProviderUser EXCEPT !.json.id = None],
     [ProviderRejects EXCEPT !.raised = Some("All connection attempts failed")]}

\* who sends a request: no Authorization header, or a bearer token and what
\* the identity provider says to it
Callers ==
    {[credentials |-> None, provider |-> ProviderRejects]}
    \cup {[credentials |-> Some("token"), provider |-> p] : p \in Providers}

LeaseText ==
    "This lease is between Acme Pty Ltd and Bob. Rent: R5 000 due 1 May 2024; breach means penalty."

TextBodies ==
    {[text |-> t, analysis_type |-> None] :
        t \in {Str(LeaseText), Str("too short"), Str("  hi      "), Str("          "),
               Str(""), PyNone}}
    \cup {[text |-> Str(LeaseText), analysis_type |-> Some("summary")]}

LegalBodies ==
    {[text |-> t, document_type |-> None] :
        t \in {Str(LeaseText), Str("too short"), PyNone,
               Str("   Rent is R5 000 monthly.                            ")}}
    \cup {[text |-> Str(LeaseText), document_type |-> Some(d)] :
             d \in {"lease_agreement", "will"}}

FeedbackBodies ==
    {[text |-> t, source |-> None] :
        t \in {Str("Great service, thank you! The staff were friendly. Will come back again soon."),
               Str("too short"), Str("  hi      "), Str("          ")}}

\* n times the same text
Repeat(n, text) == [i \in 1..n |-> text]

BatchBodies ==
    {[texts |-> texts, analysis_type |-> Some(kind)] :
        texts \in {<<Str(LeaseText), Str("too short")>>, <<Str("too short")>>},
        kind \in {"text", "legal", "feedback", "summary"}}
    \cup {[texts |-> texts, analysis_type |-> None] :
             texts \in {<<>>, <<Str("too short"), Str(" ")>>, <<PyNone>>,
                        Repeat(BatchMaxItems, Str("too short")),
                        Repeat(BatchMaxItems + 1, Str("too short"))}}

Endpoints ==
    {[endpoint |-> "text", body |-> b] : b \in TextBodies}
    \cup {[endpoint |-> "legal", body |-> b] : b \in LegalBodies}
    \cup {[endpoint |-> "feedback", body |-> b] : b \in FeedbackBodies}
    \cup {[endpoint |-> "batch", body |-> b] : b \in BatchBodies}

HttpEnvs == [blob : Blobs, now : {"2024-11-30T10:30:00"}]

Init ==
    /\ \E cfg \in Settings :
          /\ settings = Some(cfg)
          /\ store = Some(DatabaseService(cfg))
    /\ exchange = None
    /\ CoreIdle /\ BatchIdle /\ ReproIdle

\* no request is waiting for its answer
Answered == IF exchange = None THEN TRUE ELSE exchange[1].response # None

\* a request to the endpoint is waiting for its answer
Pending(endpoint) ==
    IF exchange = None THEN FALSE
    ELSE exchange[1].response = None /\ exchange[1].endpoint = endpoint

\* a caller sends a request to one of the endpoints
Receive ==
    /\ Answered
    /\ \E e \in Endpoints, caller \in Callers, env \in HttpEnvs :
          exchange' = Some([endpoint |-> e.endpoint,
                            body |-> e.body,
                            credentials |-> caller.credentials,
                            provider |-> caller.provider,
                            env |-> env,
                            response |-> None])
    /\ UNCHANGED <<settings, store, coreVars, batchVars, reproVars>>

\* the request is answered with what serving it came to
Answers(served) ==
    /\ exchange' = Some([exchange[1] EXCEPT !.response = Some(served)])
    /\ UNCHANGED <<settings, store, coreVars, batchVars, reproVars>>

PostAnalyzeText ==
    /\ Pending("text")
    /\ Answers(post_analyze_text(settings[1], store[1], exchange[1]))

PostAnalyzeLegal ==
    /\ Pending("legal")
    /\ Answers(post_analyze_legal(settings[1], store[1], exchange[1]))

PostAnalyzeFeedback ==
    /\ Pending("feedback")
    /\ Answers(post_analyze_feedback(settings[1], store[1], exchange[1]))

PostAnalyzeBatch ==
    /\ Pending("batch")
    /\ Answers(post_analyze_batch(settings[1], exchange[1]))

Next ==
    \/ Receive
    \/ PostAnalyzeText
    \/ PostAnalyzeLegal
    \/ PostAnalyzeFeedback
    \/ PostAnalyzeBatch

Spec == Init /\ [][Next]_vars

\* the last request has been answered
Replied == IF exchange = None THEN FALSE ELSE exchange[1].response # None

Request == exchange[1]

Reply == exchange[1].response[1].answer

TextsAnalysed == exchange[1].response[1].analysed

\* the last request went to one of the three endpoints that save
SavingEndpoint == Request.endpoint \in {"text", "legal", "feedback"}

\* whom the last request was resolved to
Caller == get_current_user_optional(settings[1], Request.credentials, Request.provider)

Authenticated == IF Caller.ok THEN Caller.value # None ELSE FALSE

Anonymous == IF Caller.ok THEN Caller.value = None ELSE FALSE

\* the body of the last request passes the request model of its endpoint
Accepted ==
    IF Request.endpoint = "text" THEN TextAnalysisRequest(Request.body).ok
    ELSE IF Request.endpoint = "legal" THEN LegalAnalysisRequest(Request.body).ok
    ELSE IF Request.endpoint = "feedback" THEN FeedbackAnalysisRequest(Request.body).ok
    ELSE BatchAnalysisRequest(Request.body).ok

\* C1: on the text, legal and feedback endpoints, called by an authenticated
\* caller with a body that passes validation, saving the analysis to a store
\* that is unconfigured or unavailable never affects the response: the
\* endpoint answers 200 with the successful analysis response.
SaveFailureIsSwallowed ==
    (Replied /\ SavingEndpoint /\ Authenticated /\ Accepted) =>
        /\ Reply.status_code = 200
        /\ Reply.body.success = TRUE

\* C5: when the caller of the text, legal or feedback endpoint is resolved to
\* nobody (no credentials, or credentials that the optional dependency turns
\* into None), the route touches no attribute of the persistence service,
\* calls no save, and answers a body that passes validation with 200 and the
\* successful analysis response.
AnonymousIsUnsavedSuccess ==
    (Replied /\ SavingEndpoint /\ Anonymous) =>
        /\ Reply.saves = <<>>
        /\ Reply.reads = <<>>
        /\ Accepted => (Reply.status_code = 200 /\ Reply.body.success = TRUE)

\* a caller whose token the identity provider refused got an analysis
RefusedTokenAnalysed ==
    /\ Replied /\ SavingEndpoint /\ Anonymous /\ Accepted
    /\ Request.credentials # None
    /\ Reply.status_code = 200

\* the minimum length of a text for an analysis of the kind
MinLengthOf(kind) ==
    IF kind = "legal" THEN LegalMinLength
    ELSE IF kind = "feedback" THEN FeedbackMinLength
    ELSE TextMinLength

\* the texts of a body and the kind each is sent for
Submitted(endpoint, body) ==
    IF endpoint = "batch"
    THEN [i \in 1..Len(body.texts) |->
             Analysed(IF body.analysis_type = None THEN "text" ELSE body.analysis_type[1],
                      body.texts[i])]
    ELSE <<Analysed(endpoint, body.text)>>

\* the body has a text that is empty or too short for its kind, more items
\* than a batch may have, or an analysis kind that does not exist
Unacceptable(endpoint, body) ==
    \/ \E i \in 1..Len(Submitted(endpoint, body)) :
          \/ Submitted(endpoint, body)[i].text.pytype # "str"
          \/ Submitted(endpoint, body)[i].kind \notin AnalysisTypeValues
          \/ Len(strip(Submitted(endpoint, body)[i].text.s))
                < MinLengthOf(Submitted(endpoint, body)[i].kind)
    \/ Len(Submitted(endpoint, body)) > BatchMaxItems

\* C8: a request with an empty or too short text, a batch over the cap, or an
\* unknown analysis kind is answered with a client error that carries a
\* message, and no analyzer ran for it; no text shorter than the minimum of its
\* kind is analysed, batch items included.
ShortTextsAreNeverAnalysed ==
    Replied =>
        /\ \A i \in 1..Len(TextsAnalysed) :
              Len(TextsAnalysed[i].text) >= MinLengthOf(TextsAnalysed[i].kind)
        /\ (Caller.ok /\ Unacceptable(Request.endpoint, Request.body)) =>
              /\ Reply.status_code \in {400, 422}
              /\ Reply.body.success = FALSE
              /\ TextsAnalysed = <<>>

\* the sections of the report of a kind
SectionsOf(kind) ==
    IF kind = "text" THEN {"basic_stats", "readability", "sentiment", "top_keywords"}
    ELSE {"sentiment", "key_points", "word_count", "readability"}

\* item i of the last batch was a text whose sentiment lookup raised
SentimentLookupFailed(i) ==
    /\ BatchCall.analysis_type \in {"text", "feedback"}
    /\ BatchCall.texts[i].pytype = "str"
    /\ BatchCall.envs[i].blob.raised # None

\* C6: when the sentiment capability raises, sentiment_analysis returns
\* polarity 0, subjectivity 0, the label "Unable to analyze" and the error; the
\* text or feedback report around it is produced with all its sections, and
\* its sentiment section carries the zeroes, the label and the error marker.
SentimentFailureKeepsMarker ==
    BatchReturned =>
        \A i \in 1..Len(BatchCall.texts) :
            SentimentLookupFailed(i) =>
                /\ sentiment_analysis(BatchCall.envs[i].blob)
                      = [polarity |-> 0, subjectivity |-> 0,
                         sentiment |-> "Unable to analyze",
                         error |-> BatchCall.envs[i].blob.raised[1]]
                /\ BatchResult.results[i].success
                /\ DOMAIN BatchResult.results[i].result = SectionsOf(BatchCall.analysis_type)
                /\ BatchResult.results[i].result.sentiment.polarity = 0
                /\ BatchResult.results[i].result.sentiment.subjectivity = 0
                /\ BatchResult.results[i].result.sentiment.sentiment = "Unable to analyze"
                /\ "error" \in DOMAIN BatchResult.results[i].result.sentiment

(***************************************************************************)
(* Specification SpecRepro: the same analysis is run twice on the same     *)
(* input, in one process or in two                                         *)
(***************************************************************************)
ReproTexts ==
    {LeaseText, "too short",
     "Great service, thank you! The staff were friendly. Will come back again soon."}

CompareTexts == {"Rent and deposit.", "Rent and salary.", "Deposit paid: deposit!"}

\* the inputs of an analysis: one text, or two documents to compare
InputsOf(analysis) ==
    IF analysis = "comparison" THEN [1..2 -> CompareTexts] ELSE [1..1 -> ReproTexts]

\* what the sentiment capability may answer during an analysis; a comparison
\* does not ask it
BlobsOf(analysis) ==
    IF analysis = "comparison" THEN {[raised |-> None, polarity |-> 0, subjectivity |-> 0]}
    ELSE Blobs

\* no set is iterated
NoIterations == [unique_to_doc1 |-> <<>>, unique_to_doc2 |-> <<>>, common_keywords |-> <<>>]

\* the orders in which a process may iterate the sets of the analysis
IterationsOf(analysis, texts) ==
    IF analysis = "comparison" THEN CompareIterations(texts[1], texts[2])
    ELSE {NoIterations}

\* one run of the analysis: env is what the clock reads and how the process
\* iterates its sets during the run; the sentiment capability answers a text
\* with blob
AnalyzeRun(analysis, texts, blob, env) ==
    IF analysis = "comparison" THEN compare_documents(texts[1], texts[2], env.iter)
    ELSE AnalyzeAs(analysis, Str(texts[1]), [blob |-> blob, now |-> env.now])

InitRepro ==
    /\ runs = None
    /\ comparison = None
    /\ upload = None
    /\ CoreIdle /\ BatchIdle /\ HttpIdle

\* both runs of the last submission are done
BothRan == IF runs = None THEN FALSE ELSE runs[1].reports[2] # None

\* an analysis and its input are chosen, to be run twice; the hash seed, and
\* with it the iteration order of a set of strings, is one per process
Submit ==
    /\ IF runs = None THEN TRUE ELSE BothRan
    /\ \E analysis \in {"text", "legal", "feedback", "comparison"},
          same_process \in BOOLEAN, now1 \in {"2024-11-30T10:30:00"}, now2 \in Clock :
          \E texts \in InputsOf(analysis), blob \in BlobsOf(analysis) :
             \E iter1 \in IterationsOf(analysis, texts),
                iter2 \in IterationsOf(analysis, texts) :
                /\ same_process => iter2 = iter1
                /\ runs' = Some([analysis |-> analysis,
                                 texts |-> texts,
                                 blob |-> blob,
                                 same_process |-> same_process,
                                 envs |-> <<[now |-> now1, iter |-> iter1],
                                            [now |-> now2, iter |-> iter2]>>,
                                 reports |-> <<None, None>>])
    /\ UNCHANGED <<coreVars, batchVars, httpVars, comparison, upload>>

\* run k of the last submission
Ran(k) ==
    /\ runs' = Some([runs[1] EXCEPT !.reports[k] =
                        Some(AnalyzeRun(runs[1].analysis, runs[1].texts, runs[1].blob,
                                        runs[1].envs[k]))])
    /\ UNCHANGED <<coreVars, batchVars, httpVars, comparison, upload>>

FirstRun ==
    /\ IF runs = None THEN FALSE ELSE runs[1].reports[1] = None
    /\ Ran(1)

SecondRun ==
    /\ IF runs = None THEN FALSE
       ELSE runs[1].reports[1] # None /\ runs[1].reports[2] = None
    /\ Ran(2)

NextRepro ==
    \/ Submit
    \/ FirstRun
    \/ SecondRun

SpecRepro == InitRepro /\ [][NextRepro]_vars

\* C7: the report is a function of the input only: two runs of the same
\* analysis (text, legal, feedback or comparison) on the same input, in one
\* process or in two, whatever the clock reads and however sets are iterated,
\* return identical reports.
ReportsAreReproducible ==
    BothRan => runs[1].reports[1] = runs[1].reports[2]

(***************************************************************************)
(* Specification SpecLegal: one LegalAnalyzer and its extractions          *)
(***************************************************************************)
\* parties named twice, by one pass and by two; dates of the three formats;
\* amounts of the three patterns
LegalFragments ==
    {"between Bob and Carol, the Tenant: Bob, pays. ",
     "Acme Pty Ltd. Acme Pty Ltd! ",
     "Due 1 May 2024, 2024-06-01 and 03/07/2024. ",
     "Rent R5 000, 200 Rand, ZAR 10.50 "}

LegalDocuments ==
    {Join(frags) : frags \in UNION {[1..n -> LegalFragments] : n \in 0..MaxFrags}}

InitLegal ==
    /\ analyzer \in {LegalAnalyzer(text, None) : text \in LegalDocuments}
    /\ result = None
    /\ BatchIdle /\ ReproIdle /\ HttpIdle

ExtractParties ==
    /\ result' = Some([op |-> "extract_parties", value |-> extract_parties(analyzer)])
    /\ analyzer' = AfterParties(analyzer)
    /\ UNCHANGED <<batchVars, reproVars, httpVars>>

ExtractDates ==
    /\ result' = Some([op |-> "extract_dates", value |-> extract_dates(analyzer)])
    /\ analyzer' = AfterDates(analyzer)
    /\ UNCHANGED <<batchVars, reproVars, httpVars>>

ExtractMonetaryAmounts ==
    /\ result' = Some([op |-> "extract_monetary_amounts",
                       value |-> extract_monetary_amounts(analyzer)])
    /\ analyzer' = AfterAmounts(analyzer)
    /\ UNCHANGED <<batchVars, reproVars, httpVars>>

\* get_legal_summary reads every property and runs every extraction
GetLegalSummary ==
    /\ \E blob \in Blobs :
          result' = Some([op |-> "get_legal_summary",
                          value |-> get_legal_summary(analyzer, blob, "2024-11-30T10:30:00")])
    /\ analyzer' = AfterClauses(AfterAmounts(AfterDates(AfterParties(
                        AfterSentences(AfterWords(analyzer))))))
    /\ UNCHANGED <<batchVars, reproVars, httpVars>>

NextLegal ==
    \/ ExtractParties
    \/ ExtractDates
    \/ ExtractMonetaryAmounts
    \/ GetLegalSummary

SpecLegal == InitLegal /\ [][NextLegal]_vars

NoParty == [name |-> "Not identified", type |-> "Unknown", role |-> "Unknown"]

NoDate == [date |-> "No dates found", format |-> "N/A", context |-> ""]

NoAmount == [amount |-> "No amounts found", currency |-> "N/A", context |-> ""]

\* the pass an entry of the party list comes from
PassOf(party) ==
    IF party.type = "Company" THEN 1
    ELSE IF party.role \in {"First Party", "Second Party"} THEN 2
    ELSE 3

\* the candidates that no earlier candidate has the name of
FirstOfName(candidates) ==
    {i \in 1..Len(candidates) :
        \A j \in 1..(i - 1) : candidates[j].name # candidates[i].name}

PartiesAreFirstOfName(parties, candidates, firsts) ==
    /\ \A i \in 1..Len(parties) : \A j \in 1..Len(parties) :
          parties[i].name = parties[j].name => i = j
    /\ \A i \in 1..Len(parties) : \A j \in i..Len(parties) :
          PassOf(parties[i]) <= PassOf(parties[j])
    /\ IF candidates = <<>> THEN parties = <<NoParty>>
       ELSE /\ Len(parties) = Cardinality(firsts)
            /\ \A i \in firsts :
                  parties[Cardinality({j \in firsts : j <= i})] = candidates[i]

\* C17: extract_parties never lists a name twice; the passes run in the order
\* company suffix, 'between X and Y', role keyword, and a candidate whose
\* exact name is already listed is discarded, so the first occurrence's type
\* and role win; when no pass yields a party the list is exactly the one
\* sentinel {Not identified, Unknown, Unknown}.
PartiesAreDeduplicated ==
    LastOp = "extract_parties" =>
        \A candidates \in {PartyCandidates(analyzer.text)} :
            PartiesAreFirstOfName(LastValue, candidates, FirstOfName(candidates))

DiscardedAcrossPasses(parties, candidates) ==
    /\ Len(parties) >= 2
    /\ \E i \in 1..Len(candidates) : \E j \in (i + 1)..Len(candidates) :
          /\ candidates[j].name = candidates[i].name
          /\ candidates[j].role # candidates[i].role

\* a name met by two passes was listed once, with another party
PartyMetTwice ==
    /\ LastOp = "extract_parties"
    /\ \E candidates \in {PartyCandidates(analyzer.text)} :
          DiscardedAcrossPasses(LastValue, candidates)

SentinelIffUnmatched(items, matches, sentinel, key) ==
    /\ items # <<>>
    /\ matches = <<>> => items = <<sentinel>>
    /\ matches # <<>> => \A i \in 1..Len(items) : items[i][key] # sentinel[key]

SummaryListsAreBounded(summary, candidates, dates, amounts) ==
    /\ SentinelIffUnmatched(summary.parties, candidates, NoParty, "name")
    /\ SentinelIffUnmatched(summary.key_dates, dates, NoDate, "date")
    /\ SentinelIffUnmatched(summary.monetary_amounts, amounts, NoAmount, "amount")
    /\ Len(summary.key_dates) <= 5
    /\ Len(summary.monetary_amounts) <= 5
    /\ \A i \in 1..Len(summary.key_dates) :
          summary.key_dates[i].date = "No dates found" =>
              summary.key_dates[i].format = "N/A" /\ summary.key_dates[i].context = ""

\* C18: in every legal report parties, key_dates and monetary_amounts are
\* non-empty, with at most 5 dates and 5 amounts; a sentinel ("Not
\* identified"; "No dates found" with format "N/A" and an empty context; "No
\* amounts found") is there exactly when the extraction matched nothing, and
\* never next to a real match.
LegalListsNonEmptyAndCapped ==
    LastOp = "get_legal_summary" =>
        \A candidates \in {PartyCandidates(analyzer.text)},
           dates \in {DateMatches(analyzer.text)},
           amounts \in {AmountMatches(analyzer.text)} :
            SummaryListsAreBounded(LastValue, candidates, dates, amounts)

\* a report of a document with more than five dates and no amount
SixDatesReported ==
    /\ LastOp = "get_legal_summary"
    /\ Len(DateMatches(analyzer.text)) > 5
    /\ Len(LastValue.key_dates) = 5
    /\ LastValue.monetary_amounts = <<NoAmount>>

(***************************************************************************)
(* Specification SpecCompare: compare_documents called on two documents    *)
(***************************************************************************)
\* documents without a keyword, with two, three and four keywords, some shared
CompareDocuments ==
    {"", "It is on.",
     "Rent and deposit.", "Rent and salary.", "Deposit paid: deposit!",
     "Rent deposit salary.", "Rent, deposit, salary, paid.", "Rent deposit lease."}

InitCompare ==
    /\ comparison = None
    /\ runs = None
    /\ upload = None
    /\ CoreIdle /\ BatchIdle /\ HttpIdle

\* AnalysisService.compare_documents(doc1, doc2), with one of the orders in
\* which the process may iterate the three keyword sets
CompareDocs ==
    /\ \E doc1 \in CompareDocuments, doc2 \in CompareDocuments :
          \E iter \in CompareIterations(doc1, doc2) :
             comparison' = Some([doc1 |-> doc1, doc2 |-> doc2,
                                 outcome |-> compare_documents(doc1, doc2, iter)])
    /\ UNCHANGED <<coreVars, batchVars, httpVars, runs, upload>>

NextCompare == CompareDocs

SpecCompare == InitCompare /\ [][NextCompare]_vars

\* the last comparison
Compared == comparison # None

ComparisonReport == comparison[1].outcome.value

\* C15: comparing a document with itself, or two identical documents, whose
\* top-20 keyword set is not empty gives similarity_score 100, key_differences
\* ["No significant differences found"] and the "highly similar"
\* recommendation.
SelfComparisonIsFullySimilar ==
    (IF Compared
     THEN comparison[1].doc1 = comparison[1].doc2 /\ KeywordSet(comparison[1].doc1) # {}
     ELSE FALSE) =>
            /\ comparison[1].outcome.ok
            /\ ComparisonReport.similarity_score = 10000
            /\ ComparisonReport.key_differences = <<"No significant differences found">>
            /\ ComparisonReport.recommendation = "Documents are highly similar"

\* a document with keywords was compared with itself
SelfCompared ==
    /\ Compared
    /\ comparison[1].doc1 = comparison[1].doc2
    /\ Cardinality(KeywordSet(comparison[1].doc1)) >= 2

\* a score in hundredths is the ratio common / all times 100, to two decimals
IsPercentage(score, common, all) ==
    IF all = 0 THEN score = 0
    ELSE /\ 2 * (score * all - 10000 * common) <= all
         /\ 2 * (10000 * common - score * all) <= all

ScoredByOverlap(report, A, B) ==
    /\ IsPercentage(report.similarity_score, Cardinality(A \cap B), Cardinality(A \cup B))
    /\ report.similarity_score >= 0
    /\ report.similarity_score <= 10000
    /\ report.recommendation = "Documents are highly similar"
          <=> report.similarity_score > 7000
    /\ report.recommendation = "Documents have moderate similarity"
          <=> (report.similarity_score > 4000 /\ report.similarity_score <= 7000)
    /\ report.recommendation = "Documents are substantially different"
          <=> report.similarity_score <= 4000

\* C16: similarity_score is |A n B| / |A u B| x 100 for the two keyword sets
\* (0.0 when both are empty) and lies within [0, 100]; the recommendation is
\* "highly similar" exactly when the score is above 70, "moderate
\* similarity" exactly when it is above 40 and at most 70, and
\* "substantially different" otherwise.
SimilarityIsOverlapRatio ==
    Compared =>
        /\ comparison[1].outcome.ok
        /\ ScoredByOverlap(ComparisonReport, KeywordSet(comparison[1].doc1),
                           KeywordSet(comparison[1].doc2))

\* two different documents were scored exactly 40 and found substantially
\* different
ComparedAtForty ==
    /\ Compared
    /\ comparison[1].doc1 # comparison[1].doc2
    /\ ComparisonReport.similarity_score = 4000
    /\ ComparisonReport.recommendation = "Documents are substantially different"

(***************************************************************************)
(* DocumentLoader (app/utils/document_loader.py)                           *)
(***************************************************************************)
SUPPORTED_EXTENSIONS == {".txt", ".pdf", ".docx", ".doc"}

MAX_FILE_SIZE_MB == 10

\* the positions of character c in s
PositionsOf(s, c) == {i \in 1..Len(s) : Char(s, i) = c}

\* a string without its trailing slashes
RECURSIVE DropTrailingSlashes(_)
DropTrailingSlashes(s) ==
    IF s # "" /\ Char(s, Len(s)) = "/" THEN DropTrailingSlashes(SubSeq(s, 1, Len(s) - 1))
    ELSE s

AfterLast(s, at) == IF at = {} THEN s ELSE SubSeq(s, SetMax(at) + 1, Len(s))

\* Path(filename).name: the last component of the path
PathName(filename) ==
    AfterLast(DropTrailingSlashes(filename), PositionsOf(DropTrailingSlashes(filename), "/"))

SuffixFrom(name, dots) ==
    IF dots = {} THEN ""
    ELSE IF SetMax(dots) > 1 /\ SetMax(dots) < Len(name)
         THEN SubSeq(name, SetMax(dots), Len(name))
         ELSE ""

\* Path(filename).suffix: the name from its last dot on, unless that dot is
\* the first or the last character of the name
PathSuffix(filename) == SuffixFrom(PathName(filename), PositionsOf(PathName(filename), "."))

is_supported(filename) == lower(PathSuffix(filename)) \in SUPPORTED_EXTENSIONS

\* a size check that lets every file through
AnyFileSize(file_size) == TRUE

validate_file_size(file_size) == file_size <= MAX_FILE_SIZE_MB * 1024 * 1024

\* what a loader did: its outcome, the parsers it ran in order, and its log
Loaded(outcome, parsers, log) == [outcome |-> outcome, parsers |-> parsers, log |-> log]

\* the text a parser extracts from a file
TextBy(file, parser) == file.kind \o " read by " \o parser

\* bytes.decode('utf-8'), and bytes.decode('latin-1') on UnicodeDecodeError
_load_txt_from_bytes(file) ==
    IF file.utf8
    THEN Loaded(Return(TextBy(file, "utf-8")), <<"utf-8">>, <<>>)
    ELSE Loaded(Return(TextBy(file, "latin-1")), <<"utf-8", "latin-1">>, <<>>)

\* what a PDF parser makes of the bytes: what extract_text() gives for each
\* page, in page order ("" for a page without text), and the exception that
\* ends its run, if any
Opens(pages) == [raised |-> None, pages |-> pages]

Fails(msg, pages) == [raised |-> Some(msg), pages |-> pages]

NotPdfPlumber == Fails("No /Root object! - Is this really a PDF?", <<>>)

NotPdfPyPDF2 == Fails("EOF marker not found", <<>>)

\* text_parts: the texts of the pages that have one
TextParts(pages) == SelectSeq(pages, LAMBDA text : text # "")

\* '\n\n'.join(text_parts)
RECURSIVE JoinPages(_)
JoinPages(text_parts) ==
    IF text_parts = <<>> THEN ""
    ELSE IF Len(text_parts) = 1 THEN text_parts[1]
    ELSE text_parts[1] \o "\n\n" \o JoinPages(Tail(text_parts))

\* PyPDF2.PdfReader and page.extract_text(); `ran` and `log` are the parsers
\* run and the lines logged before
_load_pdf_pypdf2_from_bytes(file, ran, log) ==
    IF file.pypdf2.raised # None
    THEN Loaded(Raise("PdfReadError", file.pypdf2.raised[1]), Append(ran, "PyPDF2"), log)
    ELSE IF TextParts(file.pypdf2.pages) = <<>>
    THEN Loaded(Raise("ValueError", "Could not extract text from PDF"),
                Append(ran, "PyPDF2"), log)
    ELSE Loaded(Return(JoinPages(TextParts(file.pypdf2.pages))), Append(ran, "PyPDF2"), log)

\* a loader that turns to PyPDF2 only when pdfplumber raises
LoadPdfFallbackOnRaiseOnly(file) ==
    IF file.pdfplumber.raised # None
    THEN _load_pdf_pypdf2_from_bytes(file, <<"pdfplumber">>,
            <<"pdfplumber failed, trying PyPDF2: " \o file.pdfplumber.raised[1]>>)
    ELSE Loaded(Return(JoinPages(TextParts(file.pdfplumber.pages))), <<"pdfplumber">>, <<>>)

\* pdfplumber first; PyPDF2 when it extracts nothing or raises
_load_pdf_from_bytes(file) ==
    IF file.pdfplumber.raised # None
    THEN _load_pdf_pypdf2_from_bytes(file, <<"pdfplumber">>,
            <<"pdfplumber failed, trying PyPDF2: " \o file.pdfplumber.raised[1]>>)
    ELSE IF TextParts(file.pdfplumber.pages) = <<>>
    THEN _load_pdf_pypdf2_from_bytes(file, <<"pdfplumber">>, <<>>)
    ELSE Loaded(Return(JoinPages(TextParts(file.pdfplumber.pages))), <<"pdfplumber">>, <<>>)

\* docx.Document, then paragraphs and table cells
_load_docx_from_bytes(file) ==
    IF file.docx = "raises"
    THEN Loaded(Raise("BadZipFile", "File is not a zip file"), <<"docx">>, <<>>)
    ELSE IF file.docx = "empty"
    THEN Loaded(Raise("ValueError", "No text content found in document"), <<"docx">>, <<>>)
    ELSE Loaded(Return(TextBy(file, "docx")), <<"docx">>, <<>>)

\* the branch of the try block for an extension
LoadByExtension(file, ext) ==
    IF ext = ".txt" THEN _load_txt_from_bytes(file)
    ELSE IF ext = ".pdf" THEN _load_pdf_from_bytes(file)
    ELSE IF ext \in {".docx", ".doc"} THEN _load_docx_from_bytes(file)
    ELSE Loaded(Raise("ValueError", "Unsupported extension: " \o ext), <<>>, <<>>)

\* `except Exception as e`: logger.error, then raise ValueError
FailedToLoad(loaded, filename) ==
    IF loaded.outcome.ok THEN loaded
    ELSE Loaded(Raise("ValueError", "Failed to load document: " \o loaded.outcome.msg),
                loaded.parsers,
                Append(loaded.log,
                       "Error loading file " \o filename \o ": " \o loaded.outcome.msg))

\* load_from_bytes(file_bytes, filename); file describes file_bytes: its
\* length and what each parser makes of it
load_from_bytes(file, filename) ==
    IF ~is_supported(filename)
    THEN Loaded(Raise("ValueError", "Unsupported file type: " \o PathSuffix(filename)),
                <<>>, <<>>)
    ELSE IF ~validate_file_size(file.size)
    THEN Loaded(Raise("ValueError",
                      "File too large. Maximum size: " \o str_int(MAX_FILE_SIZE_MB) \o "MB"),
                <<>>, <<>>)
    ELSE FailedToLoad(LoadByExtension(file, lower(PathSuffix(filename))), filename)

(***************************************************************************)
(* Specification SpecLoader: load_from_bytes called on an uploaded file    *)
(***************************************************************************)
\* what the bytes are, and what each parser makes of them
Contents ==
    {[kind |-> "utf-8 text", utf8 |-> TRUE,
      pdfplumber |-> NotPdfPlumber, pypdf2 |-> NotPdfPyPDF2, docx |-> "raises"],
     [kind |-> "latin-1 text", utf8 |-> FALSE,
      pdfplumber |-> NotPdfPlumber, pypdf2 |-> NotPdfPyPDF2, docx |-> "raises"],
     [kind |-> "pdf", utf8 |-> FALSE,
      pdfplumber |-> Opens(<<"Page one", "", "Page two">>),
      pypdf2 |-> Opens(<<"Page 1", "Page 2">>), docx |-> "raises"],
     [kind |-> "pdf only PyPDF2 extracts from", utf8 |-> FALSE,
      pdfplumber |-> Opens(<<"", "">>),
      pypdf2 |-> Opens(<<"", "Page 2">>), docx |-> "raises"],
     [kind |-> "pdf only PyPDF2 opens", utf8 |-> FALSE,
      pdfplumber |-> NotPdfPlumber,
      pypdf2 |-> Opens(<<"Page 1">>), docx |-> "raises"],
     [kind |-> "pdf pdfplumber fails on after a page", utf8 |-> FALSE,
      pdfplumber |-> Fails("Unexpected EOF", <<"Page one">>),
      pypdf2 |-> Opens(<<"Page 1", "Page 2">>), docx |-> "raises"],
     [kind |-> "scanned pdf", utf8 |-> FALSE,
      pdfplumber |-> Opens(<<"">>), pypdf2 |-> Opens(<<"">>), docx |-> "raises"],
     [kind |-> "pdf PyPDF2 fails on", utf8 |-> FALSE,
      pdfplumber |-> Opens(<<"">>), pypdf2 |-> NotPdfPyPDF2, docx |-> "raises"],
     [kind |-> "docx", utf8 |-> FALSE,
      pdfplumber |-> NotPdfPlumber, pypdf2 |-> NotPdfPyPDF2, docx |-> "text"],
     [kind |-> "docx without text", utf8 |-> FALSE,
      pdfplumber |-> NotPdfPlumber, pypdf2 |-> NotPdfPyPDF2, docx |-> "empty"]}

\* lengths in bytes: small, the maximum, and one byte more
FileSizes == {2048, 10 * 1024 * 1024, 10 * 1024 * 1024 + 1}

\* the uploaded files; the file without bytes is empty text
Files ==
    {[size |-> 0, kind |-> "nothing", utf8 |-> TRUE,
      pdfplumber |-> NotPdfPlumber, pypdf2 |-> NotPdfPyPDF2, docx |-> "raises"]}
    \cup {c @@ [size |-> n] : c \in Contents, n \in FileSizes}

Filenames ==
    {"notes.txt", "NOTES.TXT", "lease.pdf", "lease.docx", "old.doc", "setup.exe",
     "README", ".txt", "backup.tar.gz", "scans.pdf/README", "draft.txt.", "uploads/a.b/lease.Pdf"}

InitLoader ==
    /\ upload = None
    /\ runs = None
    /\ comparison = None
    /\ CoreIdle /\ BatchIdle /\ HttpIdle

LoadFromBytes ==
    /\ \E file \in Files, filename \in Filenames :
          upload' = Some([file |-> file, filename |-> filename,
                          loaded |-> load_from_bytes(file, filename)])
    /\ UNCHANGED <<coreVars, batchVars, httpVars, runs, comparison>>

NextLoader == LoadFromBytes

SpecLoader == InitLoader /\ [][NextLoader]_vars

Uploaded == upload # None

\* the file names of the uploads that carry a supported extension
SupportedFilenames == {"notes.txt", "NOTES.TXT", "lease.pdf", "lease.docx", "old.doc",
                       "uploads/a.b/lease.Pdf"}

LoadedOnlyWhenAcceptable(file, filename, loaded) ==
    /\ loaded.outcome.ok => (filename \in SupportedFilenames /\ file.size <= 10485760)
    /\ (filename \notin SupportedFilenames \/ file.size > 10485760) =>
          (~loaded.outcome.ok /\ loaded.parsers = <<>>)
    /\ ~loaded.outcome.ok => loaded.outcome.exc = "ValueError"

\* C19: load_from_bytes turns bytes into text only for a file name with a
\* supported extension (.txt, .pdf, .docx, .doc) and a size of at most 10 MB;
\* an unsupported extension or an oversize file is rejected before any
\* format parser runs; every failure, rejection or parser failure, is a
\* ValueError.
LoaderRejectsBeforeParsing ==
    Uploaded => LoadedOnlyWhenAcceptable(upload[1].file, upload[1].filename, upload[1].loaded)

\* a pdf of acceptable size on which both parsers failed
BothPdfParsersFailed ==
    /\ Uploaded
    /\ upload[1].file.size = 10485760
    /\ upload[1].loaded.parsers = <<"pdfplumber", "PyPDF2">>
    /\ ~upload[1].loaded.outcome.ok
    /\ upload[1].loaded.outcome.exc = "ValueError"

\* the last upload went to the PDF loader: supported name, acceptable size
PdfLoaded ==
    IF ~Uploaded THEN FALSE
    ELSE /\ upload[1].filename \in {"lease.pdf", "uploads/a.b/lease.Pdf"}
         /\ upload[1].file.size <= 10485760

\* the pages, in page order, that the parser found text on
PagesWithText(pages) == {i \in 1..Len(pages) : pages[i] # ""}

TwoStepFallback(primary, fallback, loaded) ==
    /\ loaded.parsers[1] = "pdfplumber"
    /\ ("PyPDF2" \in {loaded.parsers[i] : i \in 1..Len(loaded.parsers)})
          <=> (primary.raised # None \/ PagesWithText(primary.pages) = {})
    /\ loaded.parsers \in {<<"pdfplumber">>, <<"pdfplumber", "PyPDF2">>}
    /\ (Len(loaded.parsers) = 2 /\ fallback.raised = None
          /\ PagesWithText(fallback.pages) = {}) =>
              (~loaded.outcome.ok /\ loaded.outcome.exc = "ValueError")
    /\ (primary.raised = None /\ PagesWithText(primary.pages) # {}) =>
          /\ loaded.outcome.ok
          /\ loaded.parsers = <<"pdfplumber">>
          /\ loaded.outcome.value = JoinPages(TextParts(primary.pages))

get_current_user(cfg, credentials, provider) ==
    IF credentials = None THEN HTTPException(403, "Not authenticated", <<>>)
    ELSE verify_token_with_supabase(cfg, credentials[1], provider)

\* a route whose try block calls a method of db_service: the method is
\* missing (AttributeError, caught by except Exception: 500), or its data
\* are returned
StoreRoute(db, method, requested, failed, detail, body) ==
    IF method \notin DOMAIN db
    THEN Answer(500, [detail |-> detail],
                <<requested, failed \o NoAttributeMsg(method)>>,
                Persisted(None, <<method>>, <<>>, <<>>))
    ELSE Answer(200, body, <<requested>>, Persisted(None, <<method>>, <<>>, <<>>))

route_get_user_stats(db, current_user, now) ==
    StoreRoute(db, "get_user_stats",
               "Stats requested for user " \o current_user.id,
               "Error fetching user stats: ",
               "Failed to retrieve user statistics",
               Response("User statistics retrieved successfully", now,
                        [stats |-> [of |-> current_user.id]]))

route_get_user_history(db, current_user, limit) ==
    StoreRoute(db, "get_user_history",
               "History requested for user " \o current_user.id
                   \o ", limit=" \o str_int(limit),
               "Error fetching history: ",
               "Failed to retrieve history",
               [success |-> TRUE, message |-> "History retrieved successfully",
                analyses |-> [of |-> current_user.id, limit |-> limit]])

\* FastAPI around a protected route: an HTTPException of the dependency is
\* answered with its status and detail, another exception by the general
\* handler
Protected(path, now, who, answer) ==
    IF who.ok THEN [answer |-> [answer EXCEPT !.log = who.log \o @], analysed |-> <<>>]
    ELSE IF who.exc = "HTTPException"
    THEN [answer |-> Answer(who.status_code, [detail |-> who.msg], who.log, NotPersisted),
          analysed |-> <<>>]
    ELSE [answer |-> Unhandled(path, now, who), analysed |-> <<>>]

UserOf(who) == IF who.ok THEN who.value[1] ELSE [id |-> ""]

get_stats(cfg, db, req) ==
    Protected("/api/v1/stats", req.env.now,
              get_current_user(cfg, req.credentials, req.provider),
              route_get_user_stats(
                  db, UserOf(get_current_user(cfg, req.credentials, req.provider)),
                  req.env.now))

get_history(cfg, db, req) ==
    Protected("/api/v1/history", req.env.now,
              get_current_user(cfg, req.credentials, req.provider),
              route_get_user_history(
                  db, UserOf(get_current_user(cfg, req.credentials, req.provider)),
                  req.body.limit))

(***************************************************************************)
(* The health check GET /health (app/api/routes.py)                        *)
(***************************************************************************)
\* settings.APP_VERSION
APP_VERSION == "1.0.0"

\* health_check(): the response model is built from the settings and from
\* db_service.db_available; no try block is around it
route_health_check(cfg, db, now) ==
    IF "db_available" \notin DOMAIN db
    THEN Raise("AttributeError", NoAttributeMsg("db_available"))
    ELSE Return([status |-> "healthy",
                 version |-> APP_VERSION,
                 timestamp |-> now,
                 services |->
                    [api |-> "operational",
                     database |-> IF ~db["db_available"] THEN "not configured"
                                  ELSE "operational",
                     auth |-> IF cfg.SUPABASE_URL # None THEN "configured"
                              ELSE "not configured"]])

\* FastAPI around the route, which has no dependency and no body
HealthAnswer(now, done) ==
    IF done.ok THEN Answer(200, done.value, <<>>, NotPersisted)
    ELSE Unhandled("/api/v1/health", now, done)

get_health(cfg, db, req) ==
    [answer |-> HealthAnswer(req.env.now, route_health_check(cfg, db, req.env.now)),
     analysed |-> <<>>]

(***************************************************************************)
(* Specification SpecUser: the application serves GET /stats, /history and *)
(* /health                                                                 *)
(***************************************************************************)
\* the limits asked for: the default and two others
HistoryLimits == {10, 1, 50}

UserEndpoints ==
    {[endpoint |-> "stats", body |-> [limit |-> 10]],
     [endpoint |-> "health", body |-> [limit |-> 10]]}
    \cup {[endpoint |-> "history", body |-> [limit |-> n]] : n \in HistoryLimits}

ReceiveUser ==
    /\ Answered
    /\ \E e \in UserEndpoints, caller \in Callers, now \in Clock :
          exchange' = Some([endpoint |-> e.endpoint,
                            body |-> e.body,
                            credentials |-> caller.credentials,
                            provider |-> caller.provider,
                            env |-> [now |-> now],
                            response |-> None])
    /\ UNCHANGED <<settings, store, coreVars, batchVars, reproVars>>

GetUserStats ==
    /\ Pending("stats")
    /\ Answers(get_stats(settings[1], store[1], exchange[1]))

GetUserHistory ==
    /\ Pending("history")
    /\ Answers(get_history(settings[1], store[1], exchange[1]))

GetHealth ==
    /\ Pending("health")
    /\ Answers(get_health(settings[1], store[1], exchange[1]))

NextUser ==
    \/ ReceiveUser
    \/ GetUserStats
    \/ GetUserHistory
    \/ GetHealth

SpecUser == Init /\ [][NextUser]_vars

\* the operations the routes ask of the store
StoreOperationsUsed == {"get_user_stats", "get_user_history", "save_analysis", "db_available"}

\* C20: the store exposes get_user_stats and get_user_history (and the save
\* operation and the availability flag the routes use), and for an
\* authenticated caller /stats and /history answer with the data these
\* operations return instead of failing.
UserRoutesServeStoreData ==
    (Replied /\ Authenticated /\ Request.endpoint \in {"stats", "history"}) =>
        /\ StoreOperationsUsed \subseteq DOMAIN store[1]
        /\ Reply.status_code = 200
        /\ Reply.body.success = TRUE

(***************************************************************************)
(* Specification SpecClauses: one LegalAnalyzer, made with or without a    *)
(* document-type hint, and its clause detection and type classification    *)
(***************************************************************************)
\* a clause phrase with its words apart by a newline, and keywords of the
\* lease, NDA and loan types, one in capitals
ClauseFragments ==
    {"Force\nMajeure applies. ",
     "The tenant pays rent.\t",
     "CONFIDENTIAL loan notice\n"}

ClauseDocuments ==
    {Join(frags) : frags \in UNION {[1..n -> ClauseFragments] : n \in 0..MaxFrags}}

\* the hints a caller passes as document_type
Hints == {None, Some("lease"), Some("Loan Agreement")}

InitClauses ==
    /\ analyzer \in {LegalAnalyzer(text, hint) : text \in ClauseDocuments, hint \in Hints}
    /\ result = None
    /\ BatchIdle /\ ReproIdle /\ HttpIdle

IdentifyClauses ==
    /\ result' = Some([op |-> "identify_clauses", value |-> identify_clauses(analyzer)])
    /\ analyzer' = AfterClauses(analyzer)
    /\ UNCHANGED <<batchVars, reproVars, httpVars>>

IdentifyDocumentType ==
    /\ result' = Some([op |-> "identify_document_type",
                       value |-> identify_document_type(analyzer)])
    /\ UNCHANGED <<analyzer, batchVars, reproVars, httpVars>>

\* AnalysisService.analyze_legal_document(text, document_type) on the text
\* and the hint the analyzer was made with; the service makes its own analyzer
AnalyzeLegalDocument ==
    /\ \E blob \in {b \in Blobs : b.raised = None} :
          result' = Some([op |-> "analyze_legal_document",
                          blob |-> blob,
                          value |-> analyze_legal_document(
                                       Str(analyzer.text), analyzer.document_type,
                                       blob, "2024-11-30T10:30:00")])
    /\ UNCHANGED <<analyzer, batchVars, reproVars, httpVars>>

NextClauses ==
    \/ IdentifyClauses
    \/ IdentifyDocumentType
    \/ AnalyzeLegalDocument

SpecClauses == InitClauses /\ [][NextClauses]_vars

\* the clause types with a pattern that matches somewhere in the text
ClauseTypesIn(text_lower) ==
    {CLAUSE_PATTERNS[i].clause_type :
        i \in {j \in 1..Len(CLAUSE_PATTERNS) :
                 \E p \in 1..Len(text_lower) :
                    \E k \in 1..Len(CLAUSE_PATTERNS[j].literals) :
                       LitAt(text_lower, p, CLAUSE_PATTERNS[j].literals[k])}}

ClauseMapOf(clauses, types) ==
    /\ DOMAIN clauses = types
    /\ \A t \in DOMAIN clauses : clauses[t] # <<>>

\* C21: clause detection scans the ten patterns case-insensitively over the
\* normalized (whitespace-collapsed) text, so that a phrase such as "force
\* majeure" whose words are apart by a newline, a tab or several spaces in
\* the raw text is still detected; the map has a type only when it has at
\* least one match.
ClausesScanNormalizedText ==
    LastOp = "identify_clauses" =>
        \A types \in {ClauseTypesIn(lower(analyzer.cleaned_text))} :
            ClauseMapOf(LastValue, types)

(***************************************************************************)
(* Specification SpecContext: _get_context called on the span of a match   *)
(***************************************************************************)
\* texts shorter than one window, longer than one and longer than two
ContextTexts ==
    {Join(Repeat(6, "lorem ipsum \n")),
     Join(Repeat(17, "lorem ipsum \n")),
     Join(Repeat(26, "lorem ipsum \n"))}

\* the windows of the callers: dates and amounts, clauses
ContextWindows == {100, 150}

MatchLengths == {1, 5, 13, 20}

\* where a match starts: at the ends of the text and around the places where
\* a window reaches an end of the text
MatchStarts(length, size, chars) ==
    {start \in {0, 1, chars - 1, chars, chars + 1,
                length - chars - size - 1, length - chars - size,
                length - chars - size + 1, length - size} :
        start >= 0 /\ start + size <= length}

InitContext ==
    /\ analyzer \in {LegalAnalyzer(text, None) : text \in ContextTexts}
    /\ result = None
    /\ BatchIdle /\ ReproIdle /\ HttpIdle

GetContext ==
    /\ \E chars \in ContextWindows, size \in MatchLengths :
          \E start \in MatchStarts(Len(analyzer.text), size, chars) :
             result' = Some([op |-> "_get_context",
                             start |-> start,
                             end |-> start + size,
                             chars |-> chars,
                             value |-> _get_context(analyzer.text, start, start + size, chars)])
    /\ UNCHANGED <<analyzer, batchVars, reproVars, httpVars>>

NextContext == GetContext

SpecContext == InitContext /\ [][NextContext]_vars

\* text[lo:hi] with 0-based lo and hi inside the text
SliceOf(text, lo, hi) == Join([i \in 1..(hi - lo) |-> Char(text, lo + i)])

WindowOf(context, text, start, end, chars, lo, hi) ==
    /\ 0 <= lo /\ lo <= start /\ end <= hi /\ hi <= Len(text)
    /\ context = (IF start > chars THEN "..." ELSE "")
                 \o strip(SliceOf(text, lo, hi))
                 \o (IF end + chars < Len(text) THEN "..." ELSE "")

\* C22: for a match spanning [start, end) in a text of length L and a window
\* N, _get_context returns the trimmed slice text[max(0, start-N) :
\* min(L, end+N)], with "..." before it if and only if start > N and "..."
\* after it if and only if end + N < L; the window stays inside the text.
ContextIsTrimmedWindow ==
    LastOp = "_get_context" =>
        \A text \in {analyzer.text}, start \in {result[1].start},
           end \in {result[1].end}, chars \in {result[1].chars} :
            WindowOf(LastValue, text, start, end, chars,
                     IF start - chars > 0 THEN start - chars ELSE 0,
                     IF end + chars < Len(text) THEN end + chars ELSE Len(text))

\* a window cut on both sides whose slice lost white space to the trimming
ContextCutBothSides ==
    /\ LastOp = "_get_context"
    /\ result[1].start > result[1].chars
    /\ result[1].end + result[1].chars < Len(analyzer.text)
    /\ Len(LastValue) < 6 + (result[1].end - result[1].start) + 2 * result[1].chars

\* the number of keywords of each type, in the declared order, that occur in
\* the text
KeywordScores(text_lower) ==
    [i \in 1..Len(type_keywords) |->
        Cardinality({k \in 1..Len(type_keywords[i].keywords) :
                        \E p \in 1..Len(text_lower) :
                           LitAt(text_lower, p, type_keywords[i].keywords[k])})]

DeclaredTypes ==
    <<"Employment Contract", "Lease Agreement", "NDA", "Service Agreement",
      "Sales Agreement", "Partnership Agreement", "Loan Agreement">>

FirstOfBest(doc_type, scores) ==
    IF \A i \in 1..Len(scores) : scores[i] = 0
    THEN doc_type = "Unknown Document Type"
    ELSE \E i \in 1..Len(DeclaredTypes) :
            /\ doc_type = DeclaredTypes[i]
            /\ \A j \in 1..Len(scores) : scores[j] <= scores[i]
            /\ \A j \in 1..(i - 1) : scores[j] < scores[i]

\* C23: identify_document_type scores each of the seven types by the number
\* of its keywords that occur in the lower-cased text and returns the type
\* with the maximum score, the one declared first when several tie, and
\* "Unknown Document Type" exactly when every score is 0.
DocumentTypeIsFirstOfBest ==
    LastOp = "identify_document_type" =>
        \A scores \in {KeywordScores(lower(analyzer.text))} :
            /\ Len(scores) = 7
            /\ FirstOfBest(LastValue, scores)

\* NDA and Loan Agreement tie with one keyword each, and NDA is returned
TypeTieResolved ==
    /\ LastOp = "identify_document_type"
    /\ LastValue = "NDA"
    /\ \E scores \in {KeywordScores(lower(analyzer.text))} :
          scores[3] = scores[7] /\ scores[3] > 0

(***************************************************************************)
(* Specification SpecMemo: the memoized accessors of one LegalAnalyzer,    *)
(* called any number of times in any order                                 *)
(***************************************************************************)
\* a text without word, sentence, party, date, amount or clause; a text with
\* each of them; a text of punctuation
MemoDocuments ==
    {"",
     "Notice: between Bob and Carol, due 1 May 2024.\nRent R5 000! ",
     " ?! -- . \t"}

InitMemo ==
    /\ analyzer \in {LegalAnalyzer(text, None) : text \in MemoDocuments}
    /\ result = None
    /\ BatchIdle /\ ReproIdle /\ HttpIdle

\* an accessor is called: `cached` tells whether it found its result kept
Access(op, cache, value, after) ==
    /\ result' = Some([op |-> op, cached |-> cache # None, value |-> value])
    /\ analyzer' = after
    /\ UNCHANGED <<batchVars, reproVars, httpVars>>

ReadWords ==
    Access("words", analyzer._word_list, words(analyzer), AfterWords(analyzer))

ReadSentences ==
    Access("sentences", analyzer._sentence_list, sentences(analyzer),
           AfterSentences(analyzer))

CallExtractParties ==
    Access("extract_parties", analyzer._parties, extract_parties(analyzer),
           AfterParties(analyzer))

CallExtractDates ==
    Access("extract_dates", analyzer._dates, extract_dates(analyzer),
           AfterDates(analyzer))

CallExtractMonetaryAmounts ==
    Access("extract_monetary_amounts", analyzer._amounts,
           extract_monetary_amounts(analyzer), AfterAmounts(analyzer))

CallIdentifyClauses ==
    Access("identify_clauses", analyzer._clauses, identify_clauses(analyzer),
           AfterClauses(analyzer))

NextMemo ==
    \/ ReadWords
    \/ ReadSentences
    \/ CallExtractParties
    \/ CallExtractDates
    \/ CallExtractMonetaryAmounts
    \/ CallIdentifyClauses

SpecMemo == InitMemo /\ [][NextMemo]_vars

\* the attribute each accessor keeps its result in
CacheOf ==
    [words |-> "_word_list",
     sentences |-> "_sentence_list",
     extract_parties |-> "_parties",
     extract_dates |-> "_dates",
     extract_monetary_amounts |-> "_amounts",
     identify_clauses |-> "_clauses"]

CacheFields == {CacheOf[op] : op \in DOMAIN CacheOf}

\* one call: the texts stay, a kept result stays, the call finds a kept
\* result exactly when there is one, returns it, and leaves its result kept
MemoStep(before, after, access) ==
    /\ after.text = before.text
    /\ after.cleaned_text = before.cleaned_text
    /\ \A f \in CacheFields : before[f] # None => after[f] = before[f]
    /\ access.cached = (before[CacheOf[access.op]] # None)
    /\ after[CacheOf[access.op]] = Some(access.value)

\* C24: on one analyzer the word list and the sentence list are computed at
\* most once and every later access returns the value of the first
\* computation; repeated calls of extract_parties, extract_dates,
\* extract_monetary_amounts and identify_clauses return the first call's
\* result, a sentinel or an empty clause map included; the raw and the
\* normalized text never change after construction.
AccessorsAreMemoized == [][MemoStep(analyzer, analyzer', result'[1])]_vars

\* a second call of extract_parties answered with the kept sentinel, on an
\* analyzer that keeps an empty clause map
SentinelServedFromCache ==
    /\ LastOp = "extract_parties"
    /\ result[1].cached
    /\ LastValue = <<NoParty>>
    /\ analyzer._clauses = Some(<<>>)

(***************************************************************************)
(* Specification SpecCounts: the counts and the readability of texts with  *)
(* and without words and sentence punctuation                              *)
(***************************************************************************)
\* punctuation only, words without a full stop, a sentence, full stops only
CountFragments ==
    {"?! -- . \t",
     "lorem ipsum",
     "Hi there. ",
     "... "}

CountDocuments ==
    {Join(frags) : frags \in UNION {[1..n -> CountFragments] : n \in 0..MaxFrags}}

InitCounts ==
    /\ analyzer \in {LegalAnalyzer(text, None) : text \in CountDocuments}
    /\ result = None
    /\ BatchIdle /\ ReproIdle /\ HttpIdle

NextCounts ==
    \/ WordCount
    \/ SentenceCount
    \/ ScoreReadability

SpecCounts == InitCounts /\ [][NextCounts]_vars

\* C25: for every text word_count > 0 implies sentence_count >= 1 (every
\* word token lies in a non-empty sentence segment), so readability is
\* "Unable to calculate" exactly when the text has no word token; a text of
\* punctuation can have sentence_count >= 1 with word_count = 0.
WordsLieInSentences ==
    /\ word_count(analyzer) > 0 => sentence_count(analyzer) >= 1
    /\ LastOp = "word_count" /\ LastValue > 0 =>
          SegmentStarts(analyzer.cleaned_text) # {}
    /\ LastOp = "sentence_count" /\ LastValue = 0 =>
          WordTokenStarts(lower(analyzer.cleaned_text)) = {}
    /\ LastOp = "readability_score" =>
          ((LastValue.readability_level = "Unable to calculate")
             <=> (WordTokenStarts(lower(analyzer.cleaned_text)) = {}))

\* readability could not be calculated for a text with a sentence of
\* punctuation and no word
PunctuationOnlySentence ==
    /\ LastOp = "readability_score"
    /\ LastValue.readability_level = "Unable to calculate"
    /\ sentence_count(analyzer) >= 1
    /\ word_count(analyzer) = 0

(***************************************************************************)
(* Specification SpecFault: the four analysis routes, called with a valid  *)
(* request, while the analysis step runs to its end or an exception leaves *)
(* it part-way                                                             *)
(***************************************************************************)
\* except that lets every exception but a ValueError go on
CaughtValueErrorOnly(what, raised) ==
    IF raised.exc = "ValueError"
    THEN [ok |-> FALSE, exc |-> "ValueError", msg |-> what \o " failed: " \o raised.msg,
          log |-> <<"Error in " \o lower(what) \o ": " \o raised.msg>>]
    ELSE raised

\* `except Exception as e: logger.error(...); raise ValueError(f"... failed:
\* {str(e)}")` around the body of a service function
Caught(what, raised) == ServiceFailure(what, raised.msg)

\* the exceptions that leave the body of a service function
Faults ==
    {[exc |-> "TypeError", msg |-> NotAStringMsg],
     [exc |-> "KeyError", msg |-> "'risk_score'"],
     [exc |-> "ValidationError", msg |-> ValidationErrorMsg],
     [exc |-> "RecursionError", msg |-> "maximum recursion depth exceeded"],
     [exc |-> "ValueError", msg |-> "math domain error"]}

\* the try block of a service function: its body returns, or the except
\* clause takes the exception that left it
TryService(what, fault, returned) ==
    IF fault = None THEN returned
    ELSE Caught(what, Raise(fault[1].exc, fault[1].msg))

\* POST /analyze/compare once compare_documents has answered; nothing is saved
CompareRoute(request, current_user, now, analysis) ==
    RouteAnswer([what |-> "document comparison", failed |-> "Document comparison failed",
                 message |-> "Document comparison completed successfully"],
                "Document comparison requested, user=" \o UserWord(current_user),
                now, analysis, NotPersisted)

FaultRequests ==
    {[endpoint |-> "text", body |-> [text |-> LeaseText]],
     [endpoint |-> "legal", body |-> [text |-> LeaseText, document_type |-> None]],
     [endpoint |-> "feedback",
      body |-> [text |-> "Great service, thank you! The staff were friendly."]],
     [endpoint |-> "compare",
      body |-> [document1 |-> "Rent rent rent rent rent rent rent rent rent rent rent.",
                document2 |-> "Lease lease lease lease lease lease lease lease lease."]]}

\* what get_current_user_optional resolved the caller to
CurrentUsers ==
    {None,
     Some([id |-> "user-1", email |-> "thandi@example.co.za",
           user_metadata |-> "{}", created_at |-> "2024-01-01T00:00:00Z"])}

\* a valid request reaches its route; fault is the exception that will leave
\* the analysis step, if any
ReceiveValid ==
    /\ Answered
    /\ \E r \in FaultRequests, current_user \in CurrentUsers,
          blob \in Blobs, fault \in {None} \cup {Some(f) : f \in Faults} :
          exchange' = Some([endpoint |-> r.endpoint,
                            body |-> r.body,
                            current_user |-> current_user,
                            env |-> [blob |-> blob, now |-> "2024-11-30T10:30:00",
                                     fault |-> fault],
                            response |-> None])
    /\ UNCHANGED <<settings, store, coreVars, batchVars, reproVars>>

RouteAnswers(answer) == Answers([answer |-> answer, analysed |-> <<>>])

RouteAnalyzeText ==
    /\ Pending("text")
    /\ \E req \in {exchange[1]} :
          RouteAnswers(
             TextRoute(store[1], req.body, req.current_user, req.env.now,
                       TryService("Text analysis", req.env.fault,
                                  analyze_text(Str(req.body.text), req.env.blob))))

RouteAnalyzeLegal ==
    /\ Pending("legal")
    /\ \E req \in {exchange[1]} :
          RouteAnswers(
             LegalRoute(store[1], req.body, req.current_user, req.env.now,
                        TryService("Legal analysis", req.env.fault,
                                   analyze_legal_document(Str(req.body.text),
                                                          req.body.document_type,
                                                          req.env.blob, req.env.now))))

RouteAnalyzeFeedback ==
    /\ Pending("feedback")
    /\ \E req \in {exchange[1]} :
          RouteAnswers(
             FeedbackRoute(store[1], req.body, req.current_user, req.env.now,
                           TryService("Feedback analysis", req.env.fault,
                                      analyze_feedback(Str(req.body.text), req.env.blob))))

RouteCompareDocuments ==
    /\ Pending("compare")
    /\ \E req \in {exchange[1]} :
          \E iter \in CompareIterations(req.body.document1, req.body.document2) :
             RouteAnswers(
                CompareRoute(req.body, req.current_user, req.env.now,
                             TryService("Document comparison", req.env.fault,
                                        compare_documents(req.body.document1,
                                                          req.body.document2, iter))))

NextFault ==
    \/ ReceiveValid
    \/ RouteAnalyzeText
    \/ RouteAnalyzeLegal
    \/ RouteAnalyzeFeedback
    \/ RouteCompareDocuments

SpecFault == Init /\ [][NextFault]_vars

\* the name a service gives its failure
FailureName ==
    [text |-> "Text analysis", legal |-> "Legal analysis",
     feedback |-> "Feedback analysis", compare |-> "Document comparison"]

Verified ==
    verify_token_with_supabase(settings[1], Request.credentials[1], Request.provider)

\* the caller was resolved as the claim says: no one without credentials or
\* after an HTTPException, the user record after a 200 of the provider
ResolvedLeniently(who) ==
    /\ who.ok
    /\ IF Request.credentials = None THEN who.value = None
       ELSE IF Verified.ok THEN who.value = Verified.value
       ELSE who.value = None
    /\ IF ~who.ok THEN FALSE
       ELSE who.value # None =>
               Request.provider.raised = None /\ Request.provider.status_code = 200

\* C27: get_current_user_optional never rejects a request because of its
\* credentials: it returns None when no credentials are supplied and whenever
\* token verification ends in an HTTPException (401, 503, 500), and returns
\* the user record only when verification answers 200.
OptionalAuthNeverRejects ==
    Replied =>
        /\ \A who \in {Caller} : ResolvedLeniently(who)
        /\ ~(Reply.status_code = 500 /\ "error" \in DOMAIN Reply.body)

\* a legal report without the reading of the clock
WithoutDate(report) == [report EXCEPT !.document_info.analysis_date = ""]

\* the reports of the same text under every hint, one second later
ReportsUnderHints(text, blob) ==
    {WithoutDate(analyze_legal_document(Str(text), hint, blob,
                                        "2024-11-30T10:30:01").value) :
        hint \in Hints}

\* C29: the optional document-type hint passed to legal analysis has no
\* effect on the report: for every text and any two hints, none included,
\* every field of the report other than the analysis timestamp is the same,
\* and document_info.document_type is the classifier's result, never the hint.
HintHasNoEffect ==
    LastOp = "analyze_legal_document" =>
        /\ LastValue.ok
        /\ \A report \in {WithoutDate(LastValue.value)} :
              /\ ReportsUnderHints(analyzer.text, result[1].blob) = {report}
              /\ \E scores \in {KeywordScores(lower(analyzer.text))} :
                    FirstOfBest(report.document_info.document_type, scores)

\* a lease analysed under the hint "Loan Agreement" is reported as a lease
HintedLeaseReported ==
    /\ LastOp = "analyze_legal_document"
    /\ analyzer.document_type = Some("Loan Agreement")
    /\ LastValue.value.document_info.document_type = "Lease Agreement"

\* C30: the health endpoint always answers with status "healthy" and
\* services.api "operational", with services.database "not configured" when
\* the persistence store is not available and "operational" when it is; it
\* never fails, whatever the persistence and auth configuration.
HealthAlwaysHealthy ==
    (Replied /\ Request.endpoint = "health") =>
        /\ Reply.status_code = 200
        /\ Reply.body.status = "healthy"
        /\ Reply.body.services.api = "operational"
        /\ Reply.body.services.database =
              (IF store[1].client = None THEN "not configured" ELSE "operational")

====
